---- MODULE Spec2Model ----
(***************************************************************************)
(* Model of the report-generation core of the industry-report repository:  *)
(*   - the report store   (async_data_manager.py, table "reports")         *)
(*   - the article store  (async_data_manager.py, table "articles")        *)
(*   - the yearly-issues orchestrator and the rate-limited, retried LLM    *)
(*     wrapper (async_report_generator.py)                                 *)
(*                                                                         *)
(* Encoding of Python values:                                              *)
(*   None / SQL NULL for an integer column or argument is 0, None or the   *)
(*   empty text for a text argument is "": both are exactly the values     *)
(*   Python's truthiness tests ("if month:", "if not url") treat as        *)
(*   absent.                                                               *)
(***************************************************************************)
EXTENDS Integers, Sequences, FiniteSets, TLC

VARIABLES
    reports,          \* rows of table reports (reports.db)
    nextReportId,     \* next AUTOINCREMENT id of table reports
    saveCall,         \* per caller: the save_report_to_db call in flight
    lastSaveReport,   \* history: the save_report_to_db call that returned last
    nSaveCalls,       \* history: number of save_report_to_db calls started
    articles,         \* rows of table articles (articles.db)
    nextArticleId,    \* next AUTOINCREMENT id of table articles
    lastArticleSave   \* history: the last save_articles_to_db call that stored
                      \* rows, and whether the same call was made again

reportStoreVars == <<reports, nextReportId, saveCall, lastSaveReport, nSaveCalls>>

articleStoreVars == <<articles, nextArticleId, lastArticleSave>>

VARIABLES
    pc,               \* where the generation call stands
    runKind,          \* which generation function is running
    runUser,          \* its username argument
    runQuery,         \* its query argument
    evIdx,            \* position of the decomposition loop (index in LoopEvents)
    cellYear,         \* closure cell of the loop variable year
    cellMonth,        \* closure cell of the loop variable month
    cellContent,      \* closure cell of monthly_content
    monthlyTasks,     \* monthly_tasks, in the order of their creation
    yearlyTasks,      \* yearly_tasks, in the order of their creation
    yearlyTexts,      \* yearly_report_texts, as a set of (year, content) pairs
    result,           \* what the call returned, or that it raised
    failures,         \* history: units of this call with a failed LLM attempt
    llmCalls,         \* history: units whose LLM chain this call invoked
    startReports,     \* history: the report store when the call started
    endReports,       \* history: the report store when the call ended
    prevRun           \* history: the yearly-issues call that ended before

genVars == <<pc, runKind, runUser, runQuery, evIdx, cellYear, cellMonth,
             cellContent, monthlyTasks, yearlyTasks, yearlyTexts, result,
             failures, llmCalls, startReports, endReports, prevRun>>

VARIABLES
    now,              \* time.time(), in seconds
    last_call_time,   \* the module's global last_call_time
    llmTask,          \* per gathered task: its _call_llm_with_ainvoke call
    invocations       \* history: the chain.ainvoke calls started, with time

rateVars == <<now, last_call_time, llmTask, invocations>>

VARIABLES
    vectorstore,          \* entries of the Chroma collection future_report_search
    unique_docs_splits,   \* the chunks the running future call got from its search
    retrieved_docs,       \* the chunks its retriever returned
    webSearches,          \* history: Serper queries the running call has sent
    addedIds,             \* history: ids the running call handed to add_documents
    searchEnabled,        \* history: the call's perform_serper_search argument
    startVectorstore,     \* history: the collection when the call started
    environ               \* os.environ: the credentials the process was given

futureVars == <<vectorstore, unique_docs_splits, retrieved_docs, webSearches,
                addedIds, searchEnabled, startVectorstore, environ>>

VARIABLES
    crawlPc,                    \* where fetch_all_hankyung_articles stands
    crawlUser,                  \* its username argument
    max_pages,                  \* its max_pages argument
    all_article_urls,           \* the links phase 1 has collected
    current_page,               \* the search page phase 1 asks for next
    total_articles_count,       \* the total parsed from the first page
    crawlTasks,                 \* the get_article_details coroutines
    completion,                 \* the order in which the tasks completed
    crawlBatch,                 \* records waiting for save_articles_to_db
    fetched_articles_details,   \* the records collected so far
    crawlResult                 \* what the call returned, or that it raised

crawlVars == <<crawlPc, crawlUser, max_pages, all_article_urls, current_page,
               total_articles_count, crawlTasks, completion, crawlBatch,
               fetched_articles_details, crawlResult>>

VARIABLES
    postprocessContent,   \* the content _postprocess_report_output is called with
    processed_text,       \* its local of that name
    postprocessStep       \* how many of its statements have run

textVars == <<postprocessContent, processed_text, postprocessStep>>

VARIABLES
    semaphore_value,      \* the counter of asyncio.Semaphore(100)
    fetchWaiting,         \* get_article_details tasks not yet past "async with"
    fetchHolding,         \* tasks inside "async with semaphore"
    fetchReleased         \* tasks that have left it

semaphoreVars == <<semaphore_value, fetchWaiting, fetchHolding, fetchReleased>>

VARIABLES
    phase2Pc,             \* where the loop over asyncio.as_completed(tasks) stands
    recordsAwaited,       \* how many completed tasks it has awaited (its i + 1)
    pendingBatch,         \* its local batch
    savedBatches          \* the lists handed to save_articles_to_db, in order

batchVars == <<phase2Pc, recordsAwaited, pendingBatch, savedBatches>>

vars == <<reportStoreVars, articleStoreVars, genVars, rateVars, futureVars, crawlVars, textVars, semaphoreVars, batchVars>>

(***************************************************************************)
(* Bounds                                                                  *)
(***************************************************************************)
NumCallers == 2          \* concurrent callers of save_report_to_db
NumLLMTasks == 2         \* tasks asyncio.gather runs together
MaxTime == 16            \* seconds the clock runs
MaxSaveCalls == 3        \* save_report_to_db calls per behaviour
MaxBatch == 2            \* length of an article list handed to save_articles_to_db
MaxFailingUnits == 1     \* units of one call whose LLM attempts may fail
MaxArticleId == 3        \* article ids handed out per behaviour

(***************************************************************************)
(* Values                                                                  *)
(***************************************************************************)
MonthNull == 0
NoText == ""
Owners == {"alice", "bob"}
Companies == {"Acme"}
StoreKinds == {"monthly", "yearly", "future"}
StoreYears == {2023}
StoreMonths == {7}
StoreContents == {"c1", "c2"}
Callers == 1..NumCallers

(***************************************************************************)
(* Report store: schema and queries                                        *)
(***************************************************************************)

\* UNIQUE(report_type, company, year, month) of CREATE TABLE reports: the
\* columns of the constraint do not include username, and SQLite treats two
\* NULL months as distinct, so the constraint never fires for a NULL month.
ReportsUniqueViolation(T, row) ==
    \E r \in T :
        /\ r.report_type = row.report_type
        /\ r.company = row.company
        /\ r.year = row.year
        /\ r.month # MonthNull
        /\ row.month # MonthNull
        /\ r.month = row.month

\* Mutant of SelectExistingReport: "month = ?" for every type, which matches
\* no row when the month is NULL.
SelectExistingReportMonthEq(T, username, report_type, query, year, month) ==
    {r \in T : /\ r.username = username
                /\ r.report_type = report_type
                /\ r.company = query
                /\ r.year = year
                /\ r.month # MonthNull
                /\ month # MonthNull
                /\ r.month = month}

\* The existence SELECT of save_report_to_db: "month = ?" for the monthly
\* type, "month IS NULL" for every other type.
SelectExistingReport(T, username, report_type, query, year, month) ==
    IF report_type = "monthly"
    THEN {r \in T : /\ r.username = username
                    /\ r.report_type = report_type
                    /\ r.company = query
                    /\ r.year = year
                    /\ r.month # MonthNull
                    /\ month # MonthNull
                    /\ r.month = month}
    ELSE {r \in T : /\ r.username = username
                    /\ r.report_type = report_type
                    /\ r.company = query
                    /\ r.year = year
                    /\ r.month = MonthNull}

\* The INSERT and commit of save_report_to_db; an IntegrityError
\* (aiosqlite.Error) is caught and leaves the table as it was.
InsertReport(T, id, username, report_type, query, content, year, month) ==
    LET row == [id |-> id, username |-> username, report_type |-> report_type,
                company |-> query, year |-> year, month |-> month,
                content |-> content]
    IN IF ReportsUniqueViolation(T, row) THEN T ELSE T \cup {row}

\* Rows of a set, newest first (ORDER BY timestamp DESC; a row's timestamp is
\* taken when it is inserted, so the order is that of the ids).
RECURSIVE NewestFirst(_)
NewestFirst(S) ==
    IF S = {} THEN <<>>
    ELSE LET r == CHOOSE x \in S : \A z \in S : z.id <= x.id
         IN <<r>> \o NewestFirst(S \ {r})

\* load_reports_from_db: every filter is applied only when its argument is
\* truthy.
LoadReports(T, username, report_type, query, year, month) ==
    NewestFirst({r \in T :
        /\ (username # NoText => r.username = username)
        /\ (report_type # NoText => r.report_type = report_type)
        /\ (query # NoText => r.company = query)
        /\ (year # 0 => r.year = year)
        /\ (month # 0 => r.month = month)})

ContentsOf(rows) == [i \in 1..Len(rows) |-> rows[i].content]

\* A report text.  An LLM output is identified by the unit it was asked for
\* and the input it was given: ids are the articles of a monthly prompt,
\* parts the texts joined into a yearly, keyword or trend prompt.  failed
\* marks the text "보고서 생성 실패: ..." a task returns in place of a report,
\* post a text that went through _postprocess_report_output.
Content(kind, year, month, ids, parts, failed, post) ==
    [kind |-> kind, year |-> year, month |-> month, ids |-> ids,
     parts |-> parts, failed |-> failed, post |-> post]

NoContent == Content(NoText, 0, 0, <<>>, <<>>, FALSE, FALSE)

(***************************************************************************)
(* Article store                                                           *)
(***************************************************************************)

\* A publish date is the triple <<year, month, day>> its text spells;
\* NoDate is a NULL date and NADate the "N/A" text a failed extraction
\* leaves: neither matches the format '%Y-%m-%d'.
NoDate == <<0, 0, 0>>
NADate == <<-1, -1, -1>>

ArticleDict(title, date, body, url, company) ==
    [title |-> title, publish_date |-> date, author |-> "reporter",
     content |-> body, url |-> url, company |-> company]

\* The article dicts a crawl hands to save_articles_to_db.
ArticleInputs ==
    { ArticleDict("t1", <<2023, 7, 1>>, "x", "u1", "Acme"),
      ArticleDict("t2", <<2022, 5, 9>>, "x", "u2", "Acme"),
      ArticleDict("t1b", NADate, "x", "u1", "Acme"),
      ArticleDict("", <<2023, 7, 1>>, "x", "u3", "Acme"),
      ArticleDict("t3", NoDate, "x", "", "Acme") }

ArticleBatches == UNION {[1..n -> ArticleInputs] : n \in 0..MaxBatch}

\* Mutant of ArticlesUniqueViolation: a table without the UNIQUE constraint.
ArticlesNoUniqueUrl(T, url) == FALSE

\* url TEXT UNIQUE NOT NULL of CREATE TABLE articles: the constraint is on
\* the url alone, whoever owns the row.
ArticlesUniqueViolation(T, url) == \E r \in T : r.url = url

\* existing_urls: the urls already stored for this username.
ExistingUrls(T, username) == {r.url : r \in {x \in T : x.username = username}}

\* The records of the list that pass the required-field test and whose url
\* is not in existing_urls, in the order of the list (articles_to_insert).
RECURSIVE ArticlesToInsert(_, _)
ArticlesToInsert(batch, existing_urls) ==
    IF batch = <<>> THEN <<>>
    ELSE LET a == Head(batch)
             rest == ArticlesToInsert(Tail(batch), existing_urls)
         IN IF a.url = NoText \/ a.title = NoText \/ a.content = NoText
            THEN rest
            ELSE IF a.url \notin existing_urls THEN <<a>> \o rest ELSE rest

\* executemany of the INSERT: rows go in one after the other, each checked
\* against the table and the rows before it; ok is FALSE as soon as one
\* violates the UNIQUE constraint.
RECURSIVE ExecuteManyInsert(_, _, _, _)
ExecuteManyInsert(T, id, rows, username) ==
    IF rows = <<>> THEN [ok |-> TRUE, rows |-> T, nextId |-> id]
    ELSE LET a == Head(rows)
         IN IF ArticlesUniqueViolation(T, a.url)
            THEN [ok |-> FALSE, rows |-> T, nextId |-> id]
            ELSE ExecuteManyInsert(
                     T \cup {[id |-> id, username |-> username,
                              title |-> a.title,
                              publish_date |-> a.publish_date,
                              author |-> a.author, content |-> a.content,
                              url |-> a.url, suitability_score |-> 0,
                              company |-> a.company]},
                     id + 1, Tail(rows), username)

\* save_articles_to_db: the commit follows a complete executemany; an
\* IntegrityError leaves the connection without a commit, which rolls the
\* whole list back.
SaveArticlesResult(T, id, batch, username) ==
    LET ins == ExecuteManyInsert(T, id,
                   ArticlesToInsert(batch, ExistingUrls(T, username)), username)
    IN IF batch = <<>> THEN [rows |-> T, nextId |-> id]
       ELSE IF ins.ok THEN [rows |-> ins.rows, nextId |-> ins.nextId]
       ELSE [rows |-> T, nextId |-> id]

\* Mutant of LoadArticles: the SELECT without its WHERE clause.
LoadArticlesAnyOwner(T, username) == T

\* load_articles_from_db
LoadArticles(T, username) ==
    IF username # NoText THEN {r \in T : r.username = username} ELSE T

NoArticleSave == [calls |-> 0, batch |-> <<>>, username |-> NoText,
                  inserted |-> 0, after |-> {}]

IdleCall == [phase |-> "idle", username |-> NoText, report_type |-> NoText,
             query |-> NoText, content |-> NoText, year |-> 0, month |-> 0,
             existing |-> FALSE, before |-> <<>>, raced |-> FALSE]

NoSaveReport == [done |-> FALSE, username |-> NoText, report_type |-> NoText,
                 query |-> NoText, content |-> NoText, year |-> 0, month |-> 0,
                 before |-> <<>>, raced |-> FALSE, wrote |-> FALSE,
                 after |-> <<>>]

EmptyReportStore ==
    /\ reports = {}
    /\ nextReportId = 1
    /\ saveCall = [p \in Callers |-> IdleCall]
    /\ lastSaveReport = NoSaveReport
    /\ nSaveCalls = 0

EmptyArticleStore ==
    /\ articles = {}
    /\ nextArticleId = 1
    /\ lastArticleSave = NoArticleSave

LLMTasks == 1..NumLLMTasks

IdleLLMTask == [phase |-> "idle", attempt_number |-> 0, wakeAt |-> 0]

\* No task has called _call_llm_with_ainvoke; last_call_time = 0 (line 66).
NoLLMCall ==
    /\ now = 0
    /\ last_call_time = 0
    /\ llmTask = [c \in LLMTasks |-> IdleLLMTask]
    /\ invocations = {}

\* The credentials the generator modules need: the two keys
\* async_report_generator tests when it is imported, and the key
\* generate_future_report reads from os.environ.
RequiredCredentials == {"GOOGLE_API_KEY", "OPENAI_API_KEY", "SERPER_API_KEY"}

\* Importing async_future_report_generator imports async_report_generator,
\* whose module body raises ValueError unless GOOGLE_API_KEY and
\* OPENAI_API_KEY are set; no other key is looked at.
ModulesLoad(env) == {"GOOGLE_API_KEY", "OPENAI_API_KEY"} \subseteq env

\* No future-report call has run and the collection keeps what it holds.
NoFutureCall ==
    /\ unique_docs_splits = <<>>
    /\ retrieved_docs = <<>>
    /\ webSearches = 0
    /\ addedIds = <<>>
    /\ searchEnabled = FALSE
    /\ startVectorstore = vectorstore

\* The Chroma collection is empty and no future-report call has run.
NoFutureRun ==
    /\ environ = RequiredCredentials
    /\ vectorstore = {}
    /\ unique_docs_splits = <<>>
    /\ retrieved_docs = <<>>
    /\ webSearches = 0
    /\ addedIds = <<>>
    /\ searchEnabled = FALSE
    /\ startVectorstore = {}

\* No generation call is running and none has run.
NoResult == [status |-> "none", message |-> NoText, body |-> <<>>]

NoPrevRun == [done |-> FALSE, username |-> NoText, query |-> NoText,
              allOk |-> FALSE, result |-> NoResult, reportsAfter |-> {}]

\* _postprocess_report_output has not been called.
NoPostprocessCall ==
    /\ postprocessContent = <<>>
    /\ processed_text = <<>>
    /\ postprocessStep = 0

\* The semaphore of phase 2 is not counted: no fetch is followed by number.
NoDetailFetch ==
    /\ semaphore_value = 0
    /\ fetchWaiting = 0
    /\ fetchHolding = 0
    /\ fetchReleased = 0

\* No loop over as_completed is running.
NoRecordAwaited ==
    /\ phase2Pc = "idle"
    /\ recordsAwaited = 0
    /\ pendingBatch = <<>>
    /\ savedBatches = <<>>

\* fetch_all_hankyung_articles has not been called.
NoCrawl ==
    /\ crawlPc = "idle"
    /\ crawlUser = NoText
    /\ max_pages = 0
    /\ all_article_urls = <<>>
    /\ current_page = 1
    /\ total_articles_count = -1
    /\ crawlTasks = <<>>
    /\ completion = <<>>
    /\ crawlBatch = <<>>
    /\ fetched_articles_details = <<>>
    /\ crawlResult = NoResult

NoGeneration ==
    /\ pc = "idle"
    /\ runKind = NoText
    /\ runUser = NoText
    /\ runQuery = NoText
    /\ evIdx = 0
    /\ cellYear = 0
    /\ cellMonth = 0
    /\ cellContent = NoContent
    /\ monthlyTasks = <<>>
    /\ yearlyTasks = <<>>
    /\ yearlyTexts = {}
    /\ result = NoResult
    /\ failures = {}
    /\ llmCalls = {}
    /\ startReports = {}
    /\ endReports = {}
    /\ prevRun = NoPrevRun

SaveArticles(batch, username) ==
    LET res == SaveArticlesResult(articles, nextArticleId, batch, username)
        again == /\ lastArticleSave.calls > 0
                 /\ lastArticleSave.batch = batch
                 /\ lastArticleSave.username = username
    IN /\ res.nextId <= MaxArticleId + 1
       /\ articles' = res.rows
       /\ nextArticleId' = res.nextId
       /\ lastArticleSave' =
              IF res.rows # articles
              THEN [calls |-> 1, batch |-> batch, username |-> username,
                    inserted |-> Cardinality(res.rows) - Cardinality(articles),
                    after |-> res.rows]
              ELSE IF again THEN [lastArticleSave EXCEPT !.calls = 2]
              ELSE NoArticleSave
       /\ UNCHANGED <<reportStoreVars, genVars, rateVars, futureVars, crawlVars, textVars, semaphoreVars, batchVars>>

\* Mutant of ResetArticlesResult: DELETE FROM articles whatever the argument.
ResetEveryOwner(T, username) == {}

\* The rows reset_articles_db leaves: "DELETE FROM articles WHERE username = ?"
\* for a truthy username, "DELETE FROM articles" otherwise.
ResetArticlesResult(T, username) ==
    IF username # NoText THEN {r \in T : r.username # username} ELSE {}

\* reset_articles_db: DELETE of one user's rows, or of all rows; the table
\* and its id sequence stay.
ResetArticles(username) ==
    /\ articles' = ResetArticlesResult(articles, username)
    /\ lastArticleSave' = NoArticleSave
    /\ UNCHANGED nextArticleId
    /\ UNCHANGED <<reportStoreVars, genVars, rateVars, futureVars, crawlVars, textVars, semaphoreVars, batchVars>>

InitArticleStore ==
    /\ EmptyReportStore
    /\ EmptyArticleStore
    /\ NoGeneration
    /\ NoLLMCall
    /\ NoFutureRun
    /\ NoCrawl
    /\ NoDetailFetch
    /\ NoRecordAwaited
    /\ NoPostprocessCall

NextArticleStore ==
    \/ \E b \in ArticleBatches, u \in Owners : SaveArticles(b, u)
    \/ \E u \in Owners \cup {NoText} : ResetArticles(u)

SpecArticleStore == InitArticleStore /\ [][NextArticleStore]_vars

(***************************************************************************)
(* save_report_to_db as two steps: the existence SELECT, then the INSERT   *)
(* and commit (or the early return).  Other coroutines and other sessions  *)
(* run between the two awaits.                                             *)
(***************************************************************************)
SameKey(a, b) ==
    /\ a.username = b.username
    /\ a.report_type = b.report_type
    /\ a.query = b.query
    /\ a.year = b.year
    /\ a.month = b.month

SaveReportSelect(p, username, report_type, query, content, year, month) ==
    /\ saveCall[p].phase = "idle"
    /\ nSaveCalls < MaxSaveCalls
    /\ LET call == [phase |-> "selected", username |-> username,
                    report_type |-> report_type, query |-> query,
                    content |-> content, year |-> year, month |-> month,
                    existing |-> SelectExistingReport(reports, username,
                                     report_type, query, year, month) # {},
                    before |-> ContentsOf(LoadReports(reports, username,
                                     report_type, query, year, month)),
                    raced |-> FALSE]
       IN saveCall' = [saveCall EXCEPT ![p] =
              [call EXCEPT !.raced =
                  \E o \in Callers \ {p} :
                      /\ saveCall[o].phase = "selected"
                      /\ SameKey(saveCall[o], call)
                      /\ ~saveCall[o].existing]]
    /\ nSaveCalls' = nSaveCalls + 1
    /\ UNCHANGED <<reports, nextReportId, lastSaveReport>>
    /\ UNCHANGED <<articleStoreVars, genVars, rateVars, futureVars, crawlVars, textVars, semaphoreVars, batchVars>>

SaveReportInsert(p) ==
    LET c == saveCall[p]
        T == IF c.existing THEN reports
             ELSE InsertReport(reports, nextReportId, c.username,
                      c.report_type, c.query, c.content, c.year, c.month)
    IN /\ c.phase = "selected"
       /\ reports' = T
       /\ nextReportId' = IF T = reports THEN nextReportId
                          ELSE nextReportId + 1
       /\ saveCall' = [saveCall EXCEPT ![p] = IdleCall]
       /\ lastSaveReport' =
              [done |-> TRUE, username |-> c.username,
               report_type |-> c.report_type, query |-> c.query,
               content |-> c.content, year |-> c.year, month |-> c.month,
               before |-> c.before, raced |-> c.raced,
               wrote |-> T # reports,
               after |-> ContentsOf(LoadReports(T, c.username, c.report_type,
                                        c.query, c.year, c.month))]
       /\ UNCHANGED nSaveCalls
       /\ UNCHANGED <<articleStoreVars, genVars, rateVars, futureVars, crawlVars, textVars, semaphoreVars, batchVars>>

InitReportStore ==
    /\ EmptyReportStore
    /\ EmptyArticleStore
    /\ NoGeneration
    /\ NoLLMCall
    /\ NoFutureRun
    /\ NoCrawl
    /\ NoDetailFetch
    /\ NoRecordAwaited
    /\ NoPostprocessCall

NextReportStore ==
    \/ \E p \in Callers, u \in Owners, t \in StoreKinds, q \in Companies,
          c \in StoreContents, y \in StoreYears :
          \E m \in (IF t = "monthly" THEN StoreMonths ELSE {MonthNull}) :
              SaveReportSelect(p, u, t, q, c, y, m)
    \/ \E p \in Callers : SaveReportInsert(p)

SpecReportStore == InitReportStore /\ [][NextReportStore]_vars

(***************************************************************************)
(* Yearly-issues generation: decomposition                                 *)
(***************************************************************************)

IsLeapYear(y) == (y % 4 = 0 /\ y % 100 # 0) \/ y % 400 = 0

DaysInMonth(y, m) ==
    IF m = 2 THEN (IF IsLeapYear(y) THEN 29 ELSE 28)
    ELSE IF m \in {4, 6, 9, 11} THEN 30 ELSE 31

\* pd.to_datetime(..., format='%Y-%m-%d', errors='coerce'): a text that spells
\* a calendar date parses; NULL, 'N/A' and any other text become NaT.
ParsesAsDate(d) ==
    /\ d[1] \in 1..9999
    /\ d[2] \in 1..12
    /\ d[3] \in 1..DaysInMonth(d[1], d[2])

\* df after dropna(subset=['date']), with the columns year and month.
DataFrame(all_articles) == {r \in all_articles : ParsesAsDate(r.publish_date)}

YearOf(r) == r.publish_date[1]
MonthOf(r) == r.publish_date[2]

MinYear(df) == CHOOSE y \in {YearOf(r) : r \in df} : \A r \in df : y <= YearOf(r)
MaxYear(df) == CHOOSE y \in {YearOf(r) : r \in df} : \A r \in df : YearOf(r) <= y

\* monthly_articles_df of (year, month): the rows of the year, the company
\* and the user, of that month.
MonthlyArticles(df, query, username, year, month) ==
    {r \in df : /\ YearOf(r) = year
                /\ r.company = query
                /\ r.username = username
                /\ MonthOf(r) = month}

RECURSIVE Ascending(_)
Ascending(S) ==
    IF S = {} THEN <<>>
    ELSE LET x == CHOOSE v \in S : \A w \in S : v <= w
         IN <<x>> \o Ascending(S \ {x})

\* The ids of the rows of a frame, in row order (the order of the SELECT).
ArticleIds(rows) == Ascending({r.id : r \in rows})

LoopEvent(type, year, month) == [type |-> type, year |-> year, month |-> month]

\* What the two nested for loops do, in order: "year" is an iteration of
\* "for year in range(min_year, max_year + 1)", "unit" an iteration of
\* "for month in range(1, 13)" that has articles and so reaches the await of
\* load_reports_from_db, "end" the code after the loops.
RECURSIVE YearEvents(_, _, _, _, _)
YearEvents(df, query, username, year, max_year) ==
    IF year > max_year THEN <<LoopEvent("end", 0, 0)>>
    ELSE LET months == Ascending({m \in 1..12 :
                 MonthlyArticles(df, query, username, year, m) # {}})
         IN <<LoopEvent("year", year, 0)>>
            \o [i \in 1..Len(months) |-> LoopEvent("unit", year, months[i])]
            \o YearEvents(df, query, username, year + 1, max_year)

LoopEvents(T, query, username) ==
    LET df == DataFrame(LoadArticles(T, username))
    IN YearEvents(df, query, username, MinYear(df), MaxYear(df))

\* An entry of monthly_tasks or yearly_tasks.  (uy, um) is the unit the entry
\* was created for, (year, month, content) the tuple it resolves to.
Task(kind, state, uy, um, ids, parts) ==
    [kind |-> kind, state |-> state, uy |-> uy, um |-> um,
     ids |-> ids, parts |-> parts,
     year |-> 0, month |-> 0, content |-> NoContent, attempts |-> 0]

Returned(message, body) ==
    [status |-> "returned", message |-> message, body |-> body]

Raised(message) == [status |-> "raised", message |-> message, body |-> <<>>]

\* Tasks created with asyncio.create_task start at the next suspension of the
\* coroutine that created them: to_thread then hands the lambda to a thread.
Submit(tasks) ==
    [i \in 1..Len(tasks) |->
        IF tasks[i].state = "created"
        THEN [tasks[i] EXCEPT !.state = "submitted"] ELSE tasks[i]]

\* _generate_page_1_yearly_issues up to the loops: lines 110-142.
StartYearlyIssues(query, username) ==
    LET all_articles == LoadArticles(articles, username)
        df == DataFrame(all_articles)
    IN /\ pc \in {"idle", "done"}
       /\ prevRun' = IF pc = "done" /\ runKind = "yearly_issues"
                     THEN [done |-> TRUE, username |-> runUser,
                           query |-> runQuery, allOk |-> failures = {},
                           result |-> result, reportsAfter |-> endReports]
                     ELSE NoPrevRun
       /\ runKind' = "yearly_issues"
       /\ runUser' = username
       /\ runQuery' = query
       /\ startReports' = reports
       /\ failures' = {}
       /\ llmCalls' = {}
       /\ monthlyTasks' = <<>>
       /\ yearlyTasks' = <<>>
       /\ yearlyTexts' = {}
       /\ cellYear' = 0
       /\ cellMonth' = 0
       /\ cellContent' = NoContent
       /\ IF all_articles = {}
          THEN /\ result' = Returned("no crawled articles", <<>>)
               /\ endReports' = reports
               /\ pc' = "done"
               /\ evIdx' = 0
          ELSE IF df = {}
          THEN \* int(df['year'].min()) of an empty frame: int(nan) raises
               \* ValueError before the pd.isna test is reached.
               /\ result' = Raised("ValueError")
               /\ endReports' = reports
               /\ pc' = "done"
               /\ evIdx' = 0
          ELSE /\ result' = NoResult
               /\ endReports' = {}
               /\ pc' = "loop"
               /\ evIdx' = 1
       /\ UNCHANGED <<reportStoreVars, articleStoreVars, rateVars, futureVars, crawlVars, textVars, semaphoreVars, batchVars>>

CurrentEvent == LoopEvents(articles, runQuery, runUser)[evIdx]

\* The inner loop of a year that had a unit has run to month 12 when the
\* outer loop moves on.
MonthAfterLoop ==
    IF evIdx > 1 /\ LoopEvents(articles, runQuery, runUser)[evIdx - 1].type = "unit"
    THEN 12 ELSE cellMonth

\* "for year in range(min_year, max_year + 1)": the next year is bound.
LoopYear ==
    /\ pc = "loop"
    /\ CurrentEvent.type = "year"
    /\ cellYear' = CurrentEvent.year
    /\ cellMonth' = MonthAfterLoop
    /\ evIdx' = evIdx + 1
    /\ UNCHANGED <<pc, runKind, runUser, runQuery, cellContent, monthlyTasks,
                   yearlyTasks, yearlyTexts, result, failures, llmCalls,
                   startReports, endReports, prevRun>>
    /\ UNCHANGED <<reportStoreVars, articleStoreVars, rateVars, futureVars, crawlVars, textVars, semaphoreVars, batchVars>>

\* The month loop reaches a month that has articles and suspends in
\* "await load_reports_from_db(...)" (line 155).
LoopAwaitLoad ==
    /\ pc = "loop"
    /\ CurrentEvent.type = "unit"
    /\ cellMonth' = CurrentEvent.month
    /\ monthlyTasks' = Submit(monthlyTasks)
    /\ pc' = "awaitLoad"
    /\ UNCHANGED <<runKind, runUser, runQuery, evIdx, cellYear, cellContent,
                   yearlyTasks, yearlyTexts, result, failures, llmCalls,
                   startReports, endReports, prevRun>>
    /\ UNCHANGED <<reportStoreVars, articleStoreVars, rateVars, futureVars, crawlVars, textVars, semaphoreVars, batchVars>>

\* load_reports_from_db returns: lines 158-172.  A stored monthly report
\* becomes a task around the lambda, which reads year, month and
\* monthly_content when a thread runs it; a missing one becomes the coroutine
\* of _async_generate_monthly_report_task, which got its arguments by value.
LoopLoadReturn ==
    LET ev == CurrentEvent
        existing_reports == LoadReports(reports, runUser, "monthly", runQuery,
                                        ev.year, ev.month)
        ids == ArticleIds(MonthlyArticles(
                   DataFrame(LoadArticles(articles, runUser)),
                   runQuery, runUser, ev.year, ev.month))
    IN /\ pc = "awaitLoad"
       /\ IF existing_reports # <<>>
          THEN /\ cellContent' = existing_reports[1].content
               /\ monthlyTasks' = Append(monthlyTasks,
                      Task("cached", "created", ev.year, ev.month, <<>>, <<>>))
          ELSE /\ cellContent' = cellContent
               /\ monthlyTasks' = Append(monthlyTasks,
                      Task("llm", "coroutine", ev.year, ev.month, ids, <<>>))
       /\ evIdx' = evIdx + 1
       /\ pc' = "loop"
       /\ UNCHANGED <<runKind, runUser, runQuery, cellYear, cellMonth,
                      yearlyTasks, yearlyTexts, result, failures, llmCalls,
                      startReports, endReports, prevRun>>
       /\ UNCHANGED <<reportStoreVars, articleStoreVars, rateVars, futureVars, crawlVars, textVars, semaphoreVars, batchVars>>

\* asyncio.gather wraps the coroutines into tasks, which start with it.
StartCoroutines(tasks) ==
    [i \in 1..Len(tasks) |->
        IF tasks[i].state = "coroutine"
        THEN [tasks[i] EXCEPT !.state = "ready"] ELSE tasks[i]]

\* After the loops: lines 174-180.
LoopEnd ==
    /\ pc = "loop"
    /\ CurrentEvent.type = "end"
    /\ cellMonth' = MonthAfterLoop
    /\ IF monthlyTasks = <<>>
       THEN /\ result' = Returned("no monthly data to analyse", <<>>)
            /\ endReports' = reports
            /\ pc' = "done"
            /\ monthlyTasks' = monthlyTasks
       ELSE /\ monthlyTasks' = StartCoroutines(Submit(monthlyTasks))
            /\ pc' = "gatherMonthly"
            /\ UNCHANGED <<result, endReports>>
    /\ UNCHANGED <<runKind, runUser, runQuery, evIdx, cellYear, cellContent,
                   yearlyTasks, yearlyTexts, failures, llmCalls,
                   startReports, prevRun>>
    /\ UNCHANGED <<reportStoreVars, articleStoreVars, rateVars, futureVars, crawlVars, textVars, semaphoreVars, batchVars>>

\* The thread of asyncio.to_thread evaluates the lambda's tuple
\* (year, month, monthly_content) from the closure cells as they are when it
\* runs, while the coroutine that owns them goes on: first year and month ...
ThreadReadYearMonth(i) ==
    /\ monthlyTasks[i].state = "submitted"
    /\ monthlyTasks' = [monthlyTasks EXCEPT ![i] =
           [@ EXCEPT !.state = "reading", !.year = cellYear, !.month = cellMonth]]
    /\ UNCHANGED <<pc, runKind, runUser, runQuery, evIdx, cellYear, cellMonth,
                   cellContent, yearlyTasks, yearlyTexts, result, failures,
                   llmCalls, startReports, endReports, prevRun>>
    /\ UNCHANGED <<reportStoreVars, articleStoreVars, rateVars, futureVars, crawlVars, textVars, semaphoreVars, batchVars>>

\* ... then monthly_content.
ThreadReadContent(i) ==
    /\ monthlyTasks[i].state = "reading"
    /\ monthlyTasks' = [monthlyTasks EXCEPT ![i] =
           [@ EXCEPT !.state = "done", !.content = cellContent]]
    /\ UNCHANGED <<pc, runKind, runUser, runQuery, evIdx, cellYear, cellMonth,
                   cellContent, yearlyTasks, yearlyTexts, result, failures,
                   llmCalls, startReports, endReports, prevRun>>
    /\ UNCHANGED <<reportStoreVars, articleStoreVars, rateVars, futureVars, crawlVars, textVars, semaphoreVars, batchVars>>

(***************************************************************************)
(* The LLM units: _call_llm_with_ainvoke under tenacity's retry, and the   *)
(* try/except of the task around it                                        *)
(***************************************************************************)
STOP_AFTER_ATTEMPT == 10

\* stop_after_attempt(10): no further attempt once the attempt number has
\* reached 10; the wrapper then raises RetryError.
RetryStops(attempt_number) == attempt_number >= STOP_AFTER_ATTEMPT

\* The chain's output for a unit and the input it is given.
LLMOutput(kind, year, month, ids, parts) ==
    Content(kind, year, month, ids, parts, FALSE, FALSE)

\* _postprocess_report_output, on the symbolic text.
PostProcessed(c) == [c EXCEPT !.post = TRUE]

\* f"보고서 생성 실패: {e}" (and its keyword and trend counterparts)
FailureMessage(kind, year, month) ==
    Content(kind, year, month, <<>>, <<>>, TRUE, FALSE)

\* save_report_to_db run without another coroutine between its SELECT and
\* its INSERT.
SaveReportResult(T, id, username, report_type, query, content, year, month) ==
    LET rows == IF SelectExistingReport(T, username, report_type, query,
                                        year, month) # {}
                THEN T
                ELSE InsertReport(T, id, username, report_type, query,
                                  content, year, month)
    IN [rows |-> rows, nextId |-> IF rows = T THEN id ELSE id + 1]

\* Mutant of UnitAttempt: the "except Exception" of the task saves the failure
\* message as the unit's report.
UnitAttemptSavingFailure(task, kind, succeeds, T, id) ==
    LET attempt == task.attempts + 1
        content == IF succeeds
                   THEN PostProcessed(LLMOutput(kind, task.uy, task.um,
                                                task.ids, task.parts))
                   ELSE FailureMessage(kind, task.uy, task.um)
        saved == SaveReportResult(T, id, runUser, kind, runQuery, content,
                                  task.uy, task.um)
    IN IF succeeds \/ RetryStops(attempt)
       THEN [task |-> [task EXCEPT !.state = "done",
                           !.attempts = IF succeeds THEN 0 ELSE attempt,
                           !.year = task.uy, !.month = task.um,
                           !.content = content],
             rows |-> saved.rows, nextId |-> saved.nextId]
       ELSE [task |-> [task EXCEPT !.attempts = attempt],
             rows |-> T, nextId |-> id]

\* One attempt of a unit's LLM call and what the task does with its outcome:
\* on success the output is post-processed, saved and returned; on an
\* exception tenacity retries, until RetryStops, when the task's
\* "except Exception" returns the failure message.  attempts is tenacity's
\* attempt number of the call in progress, or of the call that gave up: a
\* call that returned a result has none.
UnitAttempt(task, kind, succeeds, T, id) ==
    LET attempt == task.attempts + 1
        content == PostProcessed(LLMOutput(kind, task.uy, task.um,
                                           task.ids, task.parts))
        saved == SaveReportResult(T, id, runUser, kind, runQuery, content,
                                  task.uy, task.um)
    IN IF succeeds
       THEN [task |-> [task EXCEPT !.state = "done", !.attempts = 0,
                           !.year = task.uy, !.month = task.um,
                           !.content = content],
             rows |-> saved.rows, nextId |-> saved.nextId]
       ELSE IF RetryStops(attempt)
       THEN [task |-> [task EXCEPT !.state = "done", !.attempts = attempt,
                           !.year = task.uy, !.month = task.um,
                           !.content = FailureMessage(kind, task.uy, task.um)],
             rows |-> T, nextId |-> id]
       ELSE [task |-> [task EXCEPT !.attempts = attempt],
             rows |-> T, nextId |-> id]

\* The LLM attempts of a unit may fail when it has failed before in this
\* call or fewer than MaxFailingUnits units have.
MayFail(unit) == unit \in failures \/ Cardinality(failures) < MaxFailingUnits

\* _async_generate_monthly_report_task, one attempt of its LLM call.
MonthlyTaskAttempt(i, succeeds) ==
    LET step == UnitAttempt(monthlyTasks[i], "monthly", succeeds,
                            reports, nextReportId)
    IN /\ pc = "gatherMonthly"
       /\ monthlyTasks[i].kind = "llm"
       /\ monthlyTasks[i].state = "ready"
       /\ ~succeeds => MayFail(<<"monthly", monthlyTasks[i].uy, monthlyTasks[i].um>>)
       /\ failures' = IF succeeds THEN failures
                      ELSE failures \cup
                           {<<"monthly", monthlyTasks[i].uy, monthlyTasks[i].um>>}
       /\ llmCalls' = llmCalls \cup
              {<<"monthly", monthlyTasks[i].uy, monthlyTasks[i].um>>}
       /\ monthlyTasks' = [monthlyTasks EXCEPT ![i] = step.task]
       /\ reports' = step.rows
       /\ nextReportId' = step.nextId
       /\ UNCHANGED <<pc, runKind, runUser, runQuery, evIdx, cellYear,
                      cellMonth, cellContent, yearlyTasks, yearlyTexts, result,
                      startReports, endReports, prevRun>>
       /\ UNCHANGED <<saveCall, lastSaveReport, nSaveCalls, articleStoreVars,
                      rateVars, futureVars, crawlVars, textVars, semaphoreVars, batchVars>>

\* Mutant of AllDone: the gather does not wait.
GatherReturnsAtOnce(tasks) == TRUE

\* asyncio.gather(*tasks) returns when every task has resolved.
AllDone(tasks) == \A i \in 1..Len(tasks) : tasks[i].state = "done"

\* monthly_summaries[year]: the contents of the results whose tuple carries
\* that year, in the order of monthly_tasks.
MonthlySummaries(tasks, year) ==
    LET of_year == SelectSeq(tasks, LAMBDA t : t.year = year)
    IN [i \in 1..Len(of_year) |-> of_year[i].content]

\* Mutant of YearlyCached: the stored yearly report is never found.
YearlyNeverCached(year) == <<>>

\* The stored yearly report of a year of monthly_summaries (lines 191-195).
YearlyCached(year) ==
    LoadReports(reports, runUser, "yearly", runQuery, year, 0)

\* Lines 180-202: the monthly results are grouped by the year of their tuple;
\* each such year either has a stored yearly report, which is taken, or gets
\* the coroutine of _async_generate_yearly_report_task; asyncio.gather then
\* starts these.
JoinMonthly ==
    LET years == {monthlyTasks[i].year : i \in 1..Len(monthlyTasks)}
        cached == {y \in years : YearlyCached(y) # <<>>}
        todo == Ascending(years \ cached)
    IN /\ pc = "gatherMonthly"
       /\ AllDone(monthlyTasks)
       /\ yearlyTexts' = {[year |-> y, content |-> YearlyCached(y)[1].content] :
                              y \in cached}
       /\ yearlyTasks' = [i \in 1..Len(todo) |->
              Task("llm", "ready", todo[i], 0, <<>>,
                   MonthlySummaries(monthlyTasks, todo[i]))]
       /\ pc' = "gatherYearly"
       /\ UNCHANGED <<runKind, runUser, runQuery, evIdx, cellYear, cellMonth,
                      cellContent, monthlyTasks, result, failures, llmCalls,
                      startReports, endReports, prevRun>>
       /\ UNCHANGED <<reportStoreVars, articleStoreVars, rateVars, futureVars, crawlVars, textVars, semaphoreVars, batchVars>>

\* _async_generate_yearly_report_task, one attempt of its LLM call.
YearlyTaskAttempt(i, succeeds) ==
    LET step == UnitAttempt(yearlyTasks[i], "yearly", succeeds,
                            reports, nextReportId)
    IN /\ pc = "gatherYearly"
       /\ yearlyTasks[i].state = "ready"
       /\ ~succeeds => MayFail(<<"yearly", yearlyTasks[i].uy, 0>>)
       /\ failures' = IF succeeds THEN failures
                      ELSE failures \cup {<<"yearly", yearlyTasks[i].uy, 0>>}
       /\ llmCalls' = llmCalls \cup {<<"yearly", yearlyTasks[i].uy, 0>>}
       /\ yearlyTasks' = [yearlyTasks EXCEPT ![i] = step.task]
       /\ reports' = step.rows
       /\ nextReportId' = step.nextId
       /\ UNCHANGED <<pc, runKind, runUser, runQuery, evIdx, cellYear,
                      cellMonth, cellContent, monthlyTasks, yearlyTexts, result,
                      startReports, endReports, prevRun>>
       /\ UNCHANGED <<saveCall, lastSaveReport, nSaveCalls, articleStoreVars,
                      rateVars, futureVars, crawlVars, textVars, semaphoreVars, batchVars>>

RECURSIVE NewestYearFirst(_)
NewestYearFirst(texts) ==
    IF texts = {} THEN <<>>
    ELSE LET t == CHOOSE x \in texts : \A z \in texts : z.year <= x.year
         IN <<t.content>> \o NewestYearFirst(texts \ {t})

\* Lines 202-217: the yearly results join the stored yearly reports and the
\* page is their texts, newest year first.
FinishYearlyIssues ==
    LET texts == yearlyTexts \cup
            {[year |-> yearlyTasks[i].year, content |-> yearlyTasks[i].content] :
                 i \in 1..Len(yearlyTasks)}
    IN /\ pc = "gatherYearly"
       /\ AllDone(yearlyTasks)
       /\ yearlyTexts' = texts
       /\ result' = IF texts = {}
                    THEN Returned("no yearly data to analyse", <<>>)
                    ELSE Returned(NoText, NewestYearFirst(texts))
       /\ endReports' = reports
       /\ pc' = "done"
       /\ UNCHANGED <<runKind, runUser, runQuery, evIdx, cellYear, cellMonth,
                      cellContent, monthlyTasks, yearlyTasks, failures,
                      llmCalls, startReports, prevRun>>
       /\ UNCHANGED <<reportStoreVars, articleStoreVars, rateVars, futureVars, crawlVars, textVars, semaphoreVars, batchVars>>

(***************************************************************************)
(* Keyword summary and company trend analysis                              *)
(***************************************************************************)
CurrentYear == 2023

RECURSIVE StableByYearDesc(_)
\* reports.sort(key=lambda x: x['year'], reverse=True): a stable sort of the
\* newest-first list.
StableByYearDesc(rows) ==
    IF rows = <<>> THEN <<>>
    ELSE LET top == CHOOSE y \in {rows[i].year : i \in 1..Len(rows)} :
                        \A i \in 1..Len(rows) : rows[i].year <= y
         IN SelectSeq(rows, LAMBDA r : r.year = top)
            \o StableByYearDesc(SelectSeq(rows, LAMBDA r : r.year # top))

\* Mutant of LoadYearlyReportsContent: the load asks for the monthly type.
LoadMonthlyReportsContent(T, company, username) ==
    ContentsOf(StableByYearDesc(LoadReports(T, username, "monthly", company, 0, 0)))

\* _load_yearly_reports_content
LoadYearlyReportsContent(T, company, username) ==
    ContentsOf(StableByYearDesc(LoadReports(T, username, "yearly", company, 0, 0)))

\* _generate_page_2_keyword_summary and _generate_page_3_company_trend_analysis
\* up to the LLM call: the stored report of the current year is returned, no
\* yearly report gives the placeholder, else the unit is set up.
StartSummary(kind, query, username) ==
    LET existing_reports == LoadReports(reports, username, kind, query,
                                        CurrentYear, 0)
        yearly_reports_content == LoadYearlyReportsContent(reports, query, username)
    IN /\ pc \in {"idle", "done"}
       /\ prevRun' = NoPrevRun
       /\ runKind' = kind
       /\ runUser' = username
       /\ runQuery' = query
       /\ startReports' = reports
       /\ failures' = {}
       /\ llmCalls' = {}
       /\ monthlyTasks' = <<>>
       /\ yearlyTexts' = {}
       /\ cellYear' = 0
       /\ cellMonth' = 0
       /\ cellContent' = NoContent
       /\ evIdx' = 0
       /\ IF existing_reports # <<>>
          THEN /\ result' = Returned(NoText, <<existing_reports[1].content>>)
               /\ endReports' = reports
               /\ yearlyTasks' = <<>>
               /\ pc' = "done"
          ELSE IF yearly_reports_content = <<>>
          THEN /\ result' = Returned("generate the yearly reports first", <<>>)
               /\ endReports' = reports
               /\ yearlyTasks' = <<>>
               /\ pc' = "done"
          ELSE /\ result' = NoResult
               /\ endReports' = {}
               /\ yearlyTasks' = <<Task("llm", "ready", CurrentYear, 0, <<>>,
                                        yearly_reports_content)>>
               /\ pc' = "summary"
       /\ unique_docs_splits' = <<>>
       /\ retrieved_docs' = <<>>
       /\ webSearches' = 0
       /\ addedIds' = <<>>
       /\ searchEnabled' = FALSE
       /\ startVectorstore' = vectorstore
       /\ UNCHANGED <<vectorstore, environ>>
       /\ UNCHANGED <<reportStoreVars, articleStoreVars, rateVars, crawlVars, textVars, semaphoreVars, batchVars>>

\* One attempt of the keyword or trend LLM call; the function returns the
\* report, or the failure message once the retries are exhausted.
SummaryAttempt(succeeds) ==
    LET step == UnitAttempt(yearlyTasks[1], runKind, succeeds,
                            reports, nextReportId)
    IN /\ pc = "summary"
       /\ ~succeeds => MayFail(<<runKind, CurrentYear, 0>>)
       /\ failures' = IF succeeds THEN failures
                      ELSE failures \cup {<<runKind, CurrentYear, 0>>}
       /\ llmCalls' = llmCalls \cup {<<runKind, CurrentYear, 0>>}
       /\ yearlyTasks' = <<step.task>>
       /\ reports' = step.rows
       /\ nextReportId' = step.nextId
       /\ IF step.task.state = "done"
          THEN /\ result' = Returned(NoText, <<step.task.content>>)
               /\ endReports' = step.rows
               /\ pc' = "done"
          ELSE UNCHANGED <<result, endReports, pc>>
       /\ UNCHANGED <<runKind, runUser, runQuery, evIdx, cellYear, cellMonth,
                      cellContent, monthlyTasks, yearlyTexts, startReports,
                      prevRun>>
       /\ UNCHANGED <<saveCall, lastSaveReport, nSaveCalls, articleStoreVars,
                      rateVars, futureVars, crawlVars, textVars, semaphoreVars, batchVars>>

(***************************************************************************)
(* Environment of a generation call                                        *)
(***************************************************************************)
OtherOwner == "bob"

\* A report another owner's generation has stored for the same company.
OtherOwnerReport(T, id, kind, year, month) ==
    SaveReportResult(T, id, OtherOwner, kind, "Acme",
        Content(kind, year, month, <<>>, <<>>, FALSE, TRUE), year, month)

\* The report stores a generation call may start from, as far as the other
\* owner goes: nothing, or a monthly report.
OtherOwnerStores ==
    { [rows |-> {}, nextId |-> 1],
      OtherOwnerReport({}, 1, "monthly", 2022, 6) }

\* The process dies in the middle of a generation call; what was committed
\* to the stores stays.
Crash ==
    /\ pc \notin {"idle", "done"}
    /\ pc' = "done"
    /\ result' = [status |-> "crashed", message |-> NoText, body |-> <<>>]
    /\ endReports' = reports
    /\ monthlyTasks' = <<>>
    /\ yearlyTasks' = <<>>
    /\ yearlyTexts' = {}
    /\ evIdx' = 0
    /\ cellYear' = 0
    /\ cellMonth' = 0
    /\ cellContent' = NoContent
    /\ UNCHANGED <<runKind, runUser, runQuery, failures, llmCalls,
                   startReports, prevRun>>
    /\ UNCHANGED <<reportStoreVars, articleStoreVars, rateVars, futureVars, crawlVars, textVars, semaphoreVars, batchVars>>

\* The articles the user of the generation calls has crawled.
GenArticle(url, date, company) == ArticleDict("t", date, "x", url, company)

GenBatches ==
    { <<>>,
      <<GenArticle("g1", <<2022, 5, 9>>, "Acme"), GenArticle("g2", <<2023, 7, 1>>, "Acme")>>,
      <<GenArticle("g1", <<2022, 5, 9>>, "Acme"), GenArticle("g2", <<2022, 6, 3>>, "Acme")>>,
      <<GenArticle("g1", <<2022, 5, 9>>, "Acme"), GenArticle("g2", <<2023, 1, 5>>, "Other")>>,
      <<GenArticle("g1", NADate, "Acme")>>,
      <<GenArticle("g1", <<2023, 1, 5>>, "Other")>>,
      <<GenArticle("g1", NoDate, "Other")>>,
      <<GenArticle("g1", NADate, "Acme"), GenArticle("g2", <<2023, 7, 1>>, "Acme")>> }

InitGen ==
    /\ \E other \in OtherOwnerStores :
           /\ reports = other.rows
           /\ nextReportId = other.nextId
    /\ saveCall = [p \in Callers |-> IdleCall]
    /\ lastSaveReport = NoSaveReport
    /\ nSaveCalls = 0
    /\ NoGeneration
    /\ \E b \in GenBatches :
           LET saved == SaveArticlesResult({}, 1, b, "alice")
           IN /\ articles = saved.rows
              /\ nextArticleId = saved.nextId
    /\ lastArticleSave = NoArticleSave
    /\ NoLLMCall
    /\ NoFutureRun
    /\ NoCrawl
    /\ NoDetailFetch
    /\ NoRecordAwaited
    /\ NoPostprocessCall

Next ==
    \/ StartYearlyIssues("Acme", "alice")
    \/ LoopYear
    \/ LoopAwaitLoad
    \/ LoopLoadReturn
    \/ LoopEnd
    \/ \E i \in 1..Len(monthlyTasks) : ThreadReadYearMonth(i)
    \/ \E i \in 1..Len(monthlyTasks) : ThreadReadContent(i)
    \/ \E i \in 1..Len(monthlyTasks), ok \in BOOLEAN : MonthlyTaskAttempt(i, ok)
    \/ JoinMonthly
    \/ \E i \in 1..Len(yearlyTasks), ok \in BOOLEAN : YearlyTaskAttempt(i, ok)
    \/ FinishYearlyIssues
    \/ \E kind \in {"keyword", "trend"} : StartSummary(kind, "Acme", "alice")
    \/ \E ok \in BOOLEAN : SummaryAttempt(ok)
    \/ Crash

Spec == InitGen /\ [][Next]_vars

(***************************************************************************)
(* Future strategy report (async_future_report_generator.py): web search,  *)
(* vector store, retrieval, one LLM call                                   *)
(***************************************************************************)
MaxDocs == 2             \* documents the four searches of one call return

SEARCH_QUERIES == 4
BATCH_SIZE == 80
RETRIEVER_K == 20

Min(a, b) == IF a <= b THEN a ELSE b

\* A Document _get_serper_results_with_retry extracts: its link and its
\* page_content, written as the windows the text splitter cuts it into.
Document(source, page) == [source |-> source, page |-> page]

\* What the web holds: the page behind one link, as two searches saw it.
SerperDocuments == { Document("s1", <<"x">>), Document("s1", <<"x", "y">>) }

\* The documents the four queries of one call return, in order; a query
\* whose retries are exhausted contributes none.
SerperResults ==
    UNION { [1..n -> SerperDocuments] : n \in 0..MaxDocs }

RECURSIVE SeenFiltered(_, _)
\* The loop over docs_for_query: a document whose content hash is in
\* seen_serper_doc_hashes is dropped.
SeenFiltered(docs, seen_serper_doc_hashes) ==
    IF docs = <<>> THEN <<>>
    ELSE IF Head(docs).page \in seen_serper_doc_hashes
    THEN SeenFiltered(Tail(docs), seen_serper_doc_hashes)
    ELSE <<Head(docs)>>
         \o SeenFiltered(Tail(docs), seen_serper_doc_hashes \cup {Head(docs).page})

RECURSIVE SplitDocuments(_, _, _)
\* text_splitter.split_documents: the windows of every document, each with
\* the metadata of its document.
SplitDocuments(docs, company_name, username) ==
    IF docs = <<>> THEN <<>>
    ELSE [i \in 1..Len(Head(docs).page) |->
              [source |-> Head(docs).source,
               page_content |-> Head(docs).page[i],
               company_name |-> company_name,
               username |-> username]]
         \o SplitDocuments(Tail(docs), company_name, username)

\* doc_id: the sha256 of the chunk's source and text.
DocId(doc) == <<doc.source, doc.page_content>>

\* vectorstore.get(where company_name and username)['ids']
CurrentDbIds(V, query, username) ==
    {e.id : e \in {e \in V : e.company_name = query /\ e.username = username}}

\* documents_to_add: the chunks whose id is not in current_db_ids.
DocumentsToAdd(splits, current_db_ids) ==
    SelectSeq(splits, LAMBDA d : DocId(d) \notin current_db_ids)

IdsOf(docs) == [i \in 1..Len(docs) |-> DocId(docs[i])]

\* Chroma.add_documents(documents, ids): one upsert of the collection.  A
\* collection that validates the ids of a call refuses one whose ids repeat
\* (DuplicateIDError), as the installed chromadb may or may not do; otherwise
\* an id the collection holds gets the new text and metadata.
AddDocuments(V, docs, validates_ids) ==
    LET ids == IdsOf(docs)
        given == {ids[i] : i \in 1..Len(ids)}
    IN IF validates_ids /\ Cardinality(given) < Len(ids)
       THEN [ok |-> FALSE, store |-> V]
       ELSE [ok |-> TRUE,
             store |-> {e \in V : e.id \notin given}
                       \cup {[id |-> DocId(docs[i]),
                              source |-> docs[i].source,
                              page_content |-> docs[i].page_content,
                              company_name |-> docs[i].company_name,
                              username |-> docs[i].username] :
                             i \in 1..Len(docs)}]

RECURSIVE AddInBatches(_, _, _)
\* The loop over range(0, len(documents_to_add), batch_size); handed are the
\* ids given to add_documents up to the call that raised.
AddInBatches(V, docs, validates_ids) ==
    IF docs = <<>> THEN [ok |-> TRUE, store |-> V, handed |-> <<>>]
    ELSE LET n == Min(BATCH_SIZE, Len(docs))
             batch == SubSeq(docs, 1, n)
             added == AddDocuments(V, batch, validates_ids)
             rest == AddInBatches(added.store, SubSeq(docs, n + 1, Len(docs)),
                                  validates_ids)
         IN IF added.ok
            THEN [ok |-> rest.ok, store |-> rest.store,
                  handed |-> IdsOf(batch) \o rest.handed]
            ELSE [ok |-> FALSE, store |-> V, handed |-> IdsOf(batch)]

RECURSIVE Ranked(_)
\* The order the retriever gives the entries that pass its filter.
Ranked(S) ==
    IF S = {} THEN <<>>
    ELSE LET e == CHOOSE e \in S : TRUE
         IN <<e>> \o Ranked(S \ {e})

\* Mutant of Retrieve: the retriever without its filter.
RetrieveUnfiltered(V, query, username) ==
    LET hits == Ranked(V)
    IN SubSeq(hits, 1, Min(RETRIEVER_K, Len(hits)))

\* retriever.invoke: at most k entries with the company_name and the
\* username of the filter.
Retrieve(V, query, username) ==
    LET hits == Ranked({e \in V : e.company_name = query /\ e.username = username})
    IN SubSeq(hits, 1, Min(RETRIEVER_K, Len(hits)))

\* The value the "except Exception" of _generate_page_4_future_report
\* returns for the exception e: the text f"❌ 보고서 생성 실패: {e}".
FutureFailure(e) ==
    Returned(e, <<FailureMessage("future", CurrentYear, MonthNull)>>)

\* Mutant of NoDocumentsRetrieved: the test of retrieved_docs is left out.
EmptyRetrievalIgnored(docs) == FALSE

\* "if not retrieved_docs"
NoDocumentsRetrieved(docs) == docs = <<>>

\* Mutant of StepAfterCacheMiss: the search runs whatever the argument.
SearchAlways(perform_serper_search) == "search"

\* "if perform_serper_search:": with the argument False the search, the split
\* and the upsert are skipped.
StepAfterCacheMiss(perform_serper_search) ==
    IF perform_serper_search THEN "search" ELSE "retrieve"

\* _generate_page_4_future_report up to the search: a stored future report
\* of the current year ends the call, which returns what
\* load_reports_from_db gave it.
StartFuture(query, username, perform_serper_search) ==
    LET existing_report_content ==
            LoadReports(reports, username, "future", query, CurrentYear, MonthNull)
    IN /\ pc \in {"idle", "done"}
       /\ prevRun' = NoPrevRun
       /\ runKind' = "future"
       /\ runUser' = username
       /\ runQuery' = query
       /\ startReports' = reports
       /\ failures' = {}
       /\ llmCalls' = {}
       /\ monthlyTasks' = <<>>
       /\ yearlyTasks' = <<>>
       /\ yearlyTexts' = {}
       /\ cellYear' = 0
       /\ cellMonth' = 0
       /\ cellContent' = NoContent
       /\ evIdx' = 0
       /\ unique_docs_splits' = <<>>
       /\ retrieved_docs' = <<>>
       /\ webSearches' = 0
       /\ addedIds' = <<>>
       /\ searchEnabled' = perform_serper_search
       /\ startVectorstore' = vectorstore
       /\ IF existing_report_content # <<>>
          THEN /\ result' = Returned(NoText, existing_report_content)
               /\ endReports' = reports
               /\ pc' = "done"
          ELSE IF "SERPER_API_KEY" \notin environ
          THEN \* os.environ['SERPER_API_KEY'] raises KeyError inside the
               \* try, whatever perform_serper_search says
               /\ result' = FutureFailure("KeyError SERPER_API_KEY")
               /\ endReports' = reports
               /\ pc' = "done"
          ELSE /\ result' = NoResult
               /\ endReports' = {}
               /\ pc' = StepAfterCacheMiss(perform_serper_search)
       /\ UNCHANGED <<vectorstore, environ>>
       /\ UNCHANGED <<reportStoreVars, articleStoreVars, rateVars, crawlVars, textVars, semaphoreVars, batchVars>>

\* The four Serper queries, the filter on content hashes and the split.
SerperSearch(docs) ==
    LET raw_serper_docs_for_vectorstore == SeenFiltered(docs, {})
    IN /\ pc = "search"
       /\ webSearches' = SEARCH_QUERIES
       /\ unique_docs_splits' =
              SplitDocuments(raw_serper_docs_for_vectorstore, runQuery, runUser)
       /\ pc' = IF raw_serper_docs_for_vectorstore = <<>>
                THEN "retrieve" ELSE "upsert"
       /\ UNCHANGED <<vectorstore, retrieved_docs, addedIds, searchEnabled,
                      startVectorstore, environ>>
       /\ UNCHANGED <<runKind, runUser, runQuery, evIdx, cellYear, cellMonth,
                      cellContent, monthlyTasks, yearlyTasks, yearlyTexts,
                      result, failures, llmCalls, startReports, endReports,
                      prevRun>>
       /\ UNCHANGED <<reportStoreVars, articleStoreVars, rateVars, crawlVars, textVars, semaphoreVars, batchVars>>

\* The new chunks are added to the collection; an exception of
\* add_documents ends the call in its "except Exception".
UpsertChunks(validates_ids) ==
    LET current_db_ids == CurrentDbIds(vectorstore, runQuery, runUser)
        documents_to_add == DocumentsToAdd(unique_docs_splits, current_db_ids)
        added == AddInBatches(vectorstore, documents_to_add, validates_ids)
    IN /\ pc = "upsert"
       /\ vectorstore' = added.store
       /\ addedIds' = added.handed
       /\ IF added.ok
          THEN /\ pc' = "retrieve"
               /\ UNCHANGED <<result, endReports>>
          ELSE /\ pc' = "done"
               /\ result' = FutureFailure("add_documents")
               /\ endReports' = reports
       /\ UNCHANGED <<unique_docs_splits, retrieved_docs, webSearches,
                      searchEnabled, startVectorstore, environ>>
       /\ UNCHANGED <<runKind, runUser, runQuery, evIdx, cellYear, cellMonth,
                      cellContent, monthlyTasks, yearlyTasks, yearlyTexts,
                      failures, llmCalls, startReports, prevRun>>
       /\ UNCHANGED <<reportStoreVars, articleStoreVars, rateVars, crawlVars, textVars, semaphoreVars, batchVars>>

\* The retriever is asked; with no document the ValueError the function
\* raises is caught by its own "except Exception".
RetrieveDocs ==
    LET docs == Retrieve(vectorstore, runQuery, runUser)
    IN /\ pc = "retrieve"
       /\ retrieved_docs' = docs
       /\ IF NoDocumentsRetrieved(docs)
          THEN /\ pc' = "done"
               /\ result' = FutureFailure("no documents retrieved")
               /\ endReports' = reports
          ELSE /\ pc' = "llm"
               /\ UNCHANGED <<result, endReports>>
       /\ UNCHANGED <<vectorstore, unique_docs_splits, webSearches, addedIds,
                      searchEnabled, startVectorstore, environ>>
       /\ UNCHANGED <<runKind, runUser, runQuery, evIdx, cellYear, cellMonth,
                      cellContent, monthlyTasks, yearlyTasks, yearlyTexts,
                      failures, llmCalls, startReports, prevRun>>
       /\ UNCHANGED <<reportStoreVars, articleStoreVars, rateVars, crawlVars, textVars, semaphoreVars, batchVars>>

\* future_roadmap_chain.invoke, called once: its output is post-processed,
\* saved and returned; its exception ends the call in "except Exception".
InvokeFutureChain(succeeds) ==
    LET roadmap_content ==
            PostProcessed(LLMOutput("future", CurrentYear, MonthNull,
                                    IdsOf(retrieved_docs), <<>>))
        saved == SaveReportResult(reports, nextReportId, runUser, "future",
                                  runQuery, roadmap_content, CurrentYear,
                                  MonthNull)
    IN /\ pc = "llm"
       /\ llmCalls' = llmCalls \cup {<<"future", CurrentYear, MonthNull>>}
       /\ failures' = IF succeeds THEN failures
                      ELSE failures \cup {<<"future", CurrentYear, MonthNull>>}
       /\ IF succeeds
          THEN /\ reports' = saved.rows
               /\ nextReportId' = saved.nextId
               /\ result' = Returned(NoText, <<roadmap_content>>)
               /\ endReports' = saved.rows
          ELSE /\ UNCHANGED <<reports, nextReportId>>
               /\ result' = FutureFailure("chain.invoke")
               /\ endReports' = reports
       /\ pc' = "done"
       /\ UNCHANGED <<runKind, runUser, runQuery, evIdx, cellYear, cellMonth,
                      cellContent, monthlyTasks, yearlyTasks, yearlyTexts,
                      startReports, prevRun>>
       /\ UNCHANGED <<saveCall, lastSaveReport, nSaveCalls, articleStoreVars,
                      rateVars, futureVars, crawlVars, textVars, semaphoreVars, batchVars>>

\* A yearly report the user's yearly-issues generation has stored.
StoredYearlyReport ==
    SaveReportResult({}, 1, "alice", "yearly", "Acme",
        Content("yearly", CurrentYear, MonthNull, <<>>, <<>>, FALSE, TRUE),
        CurrentYear, MonthNull)

InitFuture ==
    /\ \E store \in {[rows |-> {}, nextId |-> 1], StoredYearlyReport} :
           /\ reports = store.rows
           /\ nextReportId = store.nextId
    /\ saveCall = [p \in Callers |-> IdleCall]
    /\ lastSaveReport = NoSaveReport
    /\ nSaveCalls = 0
    /\ EmptyArticleStore
    /\ NoGeneration
    /\ NoLLMCall
    /\ vectorstore = {}
    /\ NoFutureCall
    /\ environ \in {env \in SUBSET RequiredCredentials : ModulesLoad(env)}
    /\ NoCrawl
    /\ NoDetailFetch
    /\ NoRecordAwaited
    /\ NoPostprocessCall

NextFuture ==
    \/ \E u \in Owners, perform_serper_search \in BOOLEAN :
           StartFuture("Acme", u, perform_serper_search)
    \/ \E docs \in SerperResults : SerperSearch(docs)
    \/ \E validates_ids \in BOOLEAN : UpsertChunks(validates_ids)
    \/ RetrieveDocs
    \/ \E ok \in BOOLEAN : InvokeFutureChain(ok)
    \/ \E kind \in {"keyword", "trend"} : StartSummary(kind, "Acme", "alice")
    \/ \E ok \in BOOLEAN : SummaryAttempt(ok)

SpecFuture == InitFuture /\ [][NextFuture]_vars

(***************************************************************************)
(* The fetcher (async_hankyung_crawler.py): URL discovery, then one detail *)
(* fetch per URL under a semaphore, results saved in batches.  The keys of *)
(* the article dict are written title ("제목"), publish_date ("작성일자"), *)
(* author ("기자"), content ("기사 원문"), url ("기사 URL") and company     *)
(* ("기업명").                                                             *)
(***************************************************************************)
MaxUrls == 2             \* links one crawl discovers
MaxPage == 2             \* search pages one crawl requests

SEMAPHORE_LIMIT == 100
SAVE_BATCH_SIZE == 10
NoTotal == -1
NoMaxPages == 0
NoHtml == [kind |-> "none", links |-> <<>>, total |-> NoTotal]
\* "URL 없음", the href of a list item without a link
NoUrl == "no URL"
NA == "N/A"

\* A search result page: the hrefs of its list items and the total count its
\* header shows (NoTotal when no count can be parsed).
SearchPage(links, total) == [kind |-> "html", links |-> links, total |-> total]

\* What get_hankyung_news_html may return for a page.
SearchPages ==
    { NoHtml,
      SearchPage(<<>>, NoTotal),
      SearchPage(<<"u1">>, NoTotal),
      SearchPage(<<"u1", "u2">>, 2),
      SearchPage(<<"u2">>, 2),
      SearchPage(<<NoUrl>>, NoTotal) }

\* What the request of a detail page may give: a client error (a refused
\* connection, a status raise_for_status rejects), a timeout, or a page
\* with the tags the fields are read from.
DetailPage(title, date, author, body) ==
    [kind |-> "html", title |-> title, date |-> date, author |-> author,
     body |-> body]

ClientError == [kind |-> "client_error", title |-> "none", date |-> FALSE,
                author |-> "none", body |-> "none"]

TimedOut == [kind |-> "timeout", title |-> "none", date |-> FALSE,
             author |-> "none", body |-> "none"]

DetailPages ==
    { ClientError,
      TimedOut,
      DetailPage("og:title", TRUE, "dable:author", "articletxt"),
      DetailPage("title", FALSE, "hk_reporter", "article-body"),
      DetailPage("title without string", TRUE, "dable:author", "articletxt"),
      DetailPage("none", TRUE, "none", "none") }

\* The dict get_article_details starts from.
SentinelDetails(article_url) ==
    [title |-> NA, publish_date |-> NADate, author |-> NA, content |-> NA,
     url |-> article_url]

\* The statements of the try block that raise: the request, and
\* full_title.strip() for a <title> tag whose string is None.  Both come
\* before the first assignment to details.
RequestOrParseRaises(page) ==
    page.kind # "html" \/ page.title = "title without string"

\* The fields read from a page that is parsed to the end.
ExtractedDetails(article_url, page) ==
    [title |-> IF page.title = "none" THEN NA ELSE "t",
     publish_date |-> IF page.date THEN <<2023, 7, 1>> ELSE NADate,
     author |-> IF page.author = "none" THEN NA ELSE "reporter",
     content |-> IF page.body = "none" THEN NA ELSE "x",
     url |-> article_url]

\* Mutant of GetArticleDetails: without the two except clauses.
GetArticleDetailsUncaught(article_url, page) ==
    [raised |-> RequestOrParseRaises(page),
     details |-> IF RequestOrParseRaises(page) THEN SentinelDetails(article_url)
                 ELSE ExtractedDetails(article_url, page)]

\* get_article_details: "except aiohttp.ClientError" and "except Exception"
\* end the try block, and details is returned as it stands.
GetArticleDetails(article_url, page) ==
    [raised |-> FALSE,
     details |-> IF RequestOrParseRaises(page) THEN SentinelDetails(article_url)
                 ELSE ExtractedDetails(article_url, page)]

FetchTask(phase, page, raised, details) ==
    [phase |-> phase, page |-> page, raised |-> raised, details |-> details]

\* Mutant of NoOwnerGiven: the username is not looked at.
OwnerNotChecked(username) == FALSE

\* "if not username"
NoOwnerGiven(username) == username = NoText

\* fetch_all_hankyung_articles up to its first page request.
StartCrawl(username, pages_cap) ==
    /\ crawlPc \in {"idle", "done"}
    /\ crawlUser' = username
    /\ max_pages' = pages_cap
    /\ all_article_urls' = <<>>
    /\ fetched_articles_details' = <<>>
    /\ current_page' = 1
    /\ total_articles_count' = NoTotal
    /\ crawlTasks' = <<>>
    /\ completion' = <<>>
    /\ crawlBatch' = <<>>
    /\ IF NoOwnerGiven(username)
       THEN /\ crawlPc' = "done"
            /\ crawlResult' = Returned(NoText, <<>>)
       ELSE /\ crawlPc' = "discover"
            /\ crawlResult' = NoResult
    /\ UNCHANGED <<reportStoreVars, articleStoreVars, genVars, rateVars,
                   futureVars, textVars, semaphoreVars, batchVars>>

\* Mutant of PageCapReached: the cap is not looked at.
PageCapIgnored(page, cap) == FALSE

\* "if max_pages and current_page >= max_pages": None and 0 are no cap.
PageCapReached(page, cap) == cap # NoMaxPages /\ page >= cap

\* The links a page adds to all_article_urls.
PageUrls(html) == SelectSeq(html.links, LAMBDA u : u # NoUrl)

\* One turn of "while True": the page is requested and parsed; the loop
\* ends on a failed request, on a page without items, at max_pages and once
\* total_articles_count links are known.  After the loop either [] is
\* returned or one get_article_details coroutine per link is created.
DiscoverPage(html) ==
    LET total == IF total_articles_count = NoTotal THEN html.total
                 ELSE total_articles_count
        urls == all_article_urls \o PageUrls(html)
        stopsEarly == html.kind = "none" \/ html.links = <<>>
        stopsLate == \/ PageCapReached(current_page, max_pages)
                     \/ (total # NoTotal /\ Len(urls) >= total)
        found == IF stopsEarly THEN all_article_urls ELSE urls
    IN /\ crawlPc = "discover"
       /\ Len(urls) <= MaxUrls
       /\ current_page < MaxPage \/ stopsEarly \/ stopsLate
       /\ total_articles_count' = IF html.kind = "none" THEN total_articles_count
                                  ELSE total
       /\ all_article_urls' = found
       /\ IF stopsEarly \/ stopsLate
          THEN /\ UNCHANGED current_page
               /\ IF found = <<>>
                  THEN /\ crawlPc' = "done"
                       /\ crawlResult' = Returned(NoText, <<>>)
                       /\ UNCHANGED crawlTasks
                  ELSE /\ crawlPc' = "fetch"
                       /\ crawlTasks' = [i \in 1..Len(found) |->
                                       FetchTask("created", ClientError, FALSE,
                                                 SentinelDetails(found[i]))]
                       /\ UNCHANGED crawlResult
          ELSE /\ current_page' = current_page + 1
               /\ UNCHANGED <<crawlPc, crawlResult, crawlTasks>>
       /\ UNCHANGED <<crawlUser, max_pages, completion, crawlBatch,
                      fetched_articles_details>>
       /\ UNCHANGED <<reportStoreVars, articleStoreVars, genVars, rateVars,
                      futureVars, textVars, semaphoreVars, batchVars>>

Holding == {i \in 1..Len(crawlTasks) : crawlTasks[i].phase = "holding"}

\* "async with semaphore": a task enters when a slot is free.
AcquireSlot(i) ==
    /\ crawlPc = "fetch"
    /\ crawlTasks[i].phase = "created"
    /\ Cardinality(Holding) < SEMAPHORE_LIMIT
    /\ crawlTasks' = [crawlTasks EXCEPT ![i].phase = "holding"]
    /\ UNCHANGED <<crawlPc, crawlUser, max_pages, all_article_urls,
                   current_page, total_articles_count, completion, crawlBatch,
                   fetched_articles_details, crawlResult>>
    /\ UNCHANGED <<reportStoreVars, articleStoreVars, genVars, rateVars,
                   futureVars, textVars, semaphoreVars, batchVars>>

\* The request and the parse of a task that holds a slot; the slot is
\* released and the task completes.
DetailFetched(i, page) ==
    LET got == GetArticleDetails(all_article_urls[i], page)
    IN /\ crawlPc = "fetch"
       /\ crawlTasks[i].phase = "holding"
       /\ crawlTasks' = [crawlTasks EXCEPT ![i] = FetchTask("completed", page, got.raised,
                                                  got.details)]
       /\ completion' = Append(completion, i)
       /\ UNCHANGED <<crawlPc, crawlUser, max_pages, all_article_urls,
                      current_page, total_articles_count, crawlBatch,
                      fetched_articles_details, crawlResult>>
       /\ UNCHANGED <<reportStoreVars, articleStoreVars, genVars, rateVars,
                      futureVars, textVars, semaphoreVars, batchVars>>

\* The record fetch_all_hankyung_articles keeps: article_detail["기업명"] = query.
WithCompany(details, query) ==
    [title |-> details.title, publish_date |-> details.publish_date,
     author |-> details.author, content |-> details.content,
     url |-> details.url, company |-> query]

\* Mutant of BatchFull: the batch is saved one record late.
BatchFullLate(batch) == Len(batch) > SAVE_BATCH_SIZE

\* "if len(batch) == 10"
BatchFull(batch) == Len(batch) = SAVE_BATCH_SIZE

\* One turn of the loop over asyncio.as_completed(tasks): the next completed
\* task is awaited, its record is kept and put in the batch, and a batch of
\* ten is saved.  An exception of the task leaves the function.
AwaitCompleted ==
    LET i == completion[Len(fetched_articles_details) + 1]
        article_detail == WithCompany(crawlTasks[i].details, "Acme")
        full == BatchFull(Append(crawlBatch, article_detail))
        saved == SaveArticlesResult(articles, nextArticleId,
                                    Append(crawlBatch, article_detail), crawlUser)
    IN /\ crawlPc = "fetch"
       /\ Len(fetched_articles_details) < Len(completion)
       /\ IF crawlTasks[i].raised
          THEN /\ crawlPc' = "done"
               /\ crawlResult' = Raised("detail fetch")
               /\ UNCHANGED <<fetched_articles_details, crawlBatch, articles,
                              nextArticleId>>
          ELSE /\ fetched_articles_details' =
                      Append(fetched_articles_details, article_detail)
               /\ crawlBatch' = IF full THEN <<>> ELSE Append(crawlBatch, article_detail)
               /\ articles' = IF full THEN saved.rows ELSE articles
               /\ nextArticleId' = IF full THEN saved.nextId ELSE nextArticleId
               /\ UNCHANGED <<crawlPc, crawlResult>>
       /\ UNCHANGED <<crawlUser, max_pages, all_article_urls, current_page,
                      total_articles_count, crawlTasks, completion>>
       /\ UNCHANGED lastArticleSave
       /\ UNCHANGED <<reportStoreVars, genVars, rateVars, futureVars, textVars, semaphoreVars, batchVars>>

\* After the loop: the batch that is left is saved and the records are
\* returned.
FinishCrawl ==
    LET saved == SaveArticlesResult(articles, nextArticleId, crawlBatch, crawlUser)
    IN /\ crawlPc = "fetch"
       /\ Len(fetched_articles_details) = Len(crawlTasks)
       /\ articles' = saved.rows
       /\ nextArticleId' = saved.nextId
       /\ crawlBatch' = <<>>
       /\ crawlPc' = "done"
       /\ crawlResult' = Returned(NoText, fetched_articles_details)
       /\ UNCHANGED <<crawlUser, max_pages, all_article_urls, current_page,
                      total_articles_count, crawlTasks, completion,
                      fetched_articles_details>>
       /\ UNCHANGED lastArticleSave
       /\ UNCHANGED <<reportStoreVars, genVars, rateVars, futureVars, textVars, semaphoreVars, batchVars>>

InitCrawl ==
    /\ EmptyReportStore
    /\ EmptyArticleStore
    /\ NoGeneration
    /\ NoLLMCall
    /\ NoFutureRun
    /\ NoCrawl
    /\ NoDetailFetch
    /\ NoRecordAwaited
    /\ NoPostprocessCall

NextCrawl ==
    \/ \E u \in {"alice", NoText}, cap \in {NoMaxPages, 1} : StartCrawl(u, cap)
    \/ \E html \in SearchPages : DiscoverPage(html)
    \/ \E i \in 1..Len(crawlTasks) : AcquireSlot(i)
    \/ \E i \in 1..Len(crawlTasks), page \in DetailPages : DetailFetched(i, page)
    \/ AwaitCompleted
    \/ FinishCrawl

SpecCrawl == InitCrawl /\ [][NextCrawl]_vars

(***************************************************************************)
(* Both stores under calls that run one after the other                    *)
(***************************************************************************)

\* save_report_to_db, from its SELECT to its return, with no other call in
\* between.
SaveReport(username, report_type, query, content, year, month) ==
    LET saved == SaveReportResult(reports, nextReportId, username,
                                  report_type, query, content, year, month)
    IN /\ reports' = saved.rows
       /\ nextReportId' = saved.nextId
       /\ UNCHANGED <<saveCall, lastSaveReport, nSaveCalls>>
       /\ UNCHANGED <<articleStoreVars, genVars, rateVars, futureVars, crawlVars, textVars, semaphoreVars, batchVars>>

InitStores ==
    /\ EmptyReportStore
    /\ EmptyArticleStore
    /\ NoGeneration
    /\ NoLLMCall
    /\ NoFutureRun
    /\ NoCrawl
    /\ NoDetailFetch
    /\ NoRecordAwaited
    /\ NoPostprocessCall

NextStores ==
    \/ \E a \in ArticleInputs, u \in Owners : SaveArticles(<<a>>, u)
    \/ \E u \in Owners \cup {NoText} : ResetArticles(u)
    \/ \E u \in Owners, t \in {"monthly", "yearly"}, q \in Companies,
          y \in StoreYears :
          \E m \in (IF t = "monthly" THEN StoreMonths ELSE {MonthNull}) :
              SaveReport(u, t, q, "c1", y, m)

SpecStores == InitStores /\ [][NextStores]_vars

(***************************************************************************)
(* The rate limiter of _call_llm_with_ainvoke, called by the tasks that    *)
(* asyncio.gather runs together.  Between two awaits a task runs alone;    *)
(* at an await (asyncio.sleep, chain.ainvoke, tenacity's wait) the others  *)
(* run.                                                                    *)
(***************************************************************************)
MAX_CALLS_PER_MINUTE == 10

API_CALL_INTERVAL_SECONDS == 60 \div MAX_CALLS_PER_MINUTE

WAIT_MIN == 4

WAIT_MAX == 10

RECURSIVE Pow2(_)
Pow2(n) == IF n <= 0 THEN 1 ELSE 2 * Pow2(n - 1)

\* wait_exponential(multiplier=1, min=4, max=10) after a failed attempt:
\* 2 ** (attempt_number - 1), kept between min and max.
WaitExponential(attempt_number) ==
    LET exp == Pow2(attempt_number - 1)
        capped == IF exp > WAIT_MAX THEN WAIT_MAX ELSE exp
    IN IF capped < WAIT_MIN THEN WAIT_MIN ELSE capped

Invocation(c, attempt_number) ==
    [task |-> c, attempt_number |-> attempt_number, at |-> now]

\* An attempt enters _call_llm_with_ainvoke (lines 84-90): it reads the clock
\* and last_call_time, and either suspends in asyncio.sleep for the rest of
\* the interval or goes straight to chain.ainvoke.
CallLLM(c) ==
    LET attempt == llmTask[c].attempt_number + 1
        current_time == now
        elapsed_time == current_time - last_call_time
    IN /\ \/ llmTask[c].phase = "idle"
          \/ llmTask[c].phase = "retry" /\ now >= llmTask[c].wakeAt
       /\ IF elapsed_time < API_CALL_INTERVAL_SECONDS
          THEN /\ llmTask' = [llmTask EXCEPT ![c] =
                      [phase |-> "sleeping", attempt_number |-> attempt,
                       wakeAt |-> now + (API_CALL_INTERVAL_SECONDS - elapsed_time)]]
               /\ UNCHANGED invocations
          ELSE /\ llmTask' = [llmTask EXCEPT ![c] =
                      [phase |-> "invoking", attempt_number |-> attempt,
                       wakeAt |-> 0]]
               /\ invocations' = invocations \cup {Invocation(c, attempt)}
       /\ UNCHANGED <<now, last_call_time>>
       /\ UNCHANGED <<reportStoreVars, articleStoreVars, genVars, futureVars, crawlVars, textVars, semaphoreVars, batchVars>>

\* asyncio.sleep is over: chain.ainvoke starts (line 91), whatever
\* last_call_time has become.
SleepReturn(c) ==
    /\ llmTask[c].phase = "sleeping"
    /\ now >= llmTask[c].wakeAt
    /\ llmTask' = [llmTask EXCEPT ![c] = [@ EXCEPT !.phase = "invoking",
                                                    !.wakeAt = 0]]
    /\ invocations' = invocations \cup {Invocation(c, llmTask[c].attempt_number)}
    /\ UNCHANGED <<now, last_call_time>>
    /\ UNCHANGED <<reportStoreVars, articleStoreVars, genVars, futureVars, crawlVars, textVars, semaphoreVars, batchVars>>

\* chain.ainvoke returns: last_call_time = time.time() (line 92).
InvokeReturn(c) ==
    /\ llmTask[c].phase = "invoking"
    /\ last_call_time' = now
    /\ llmTask' = [llmTask EXCEPT ![c] = [@ EXCEPT !.phase = "returned"]]
    /\ UNCHANGED <<now, invocations>>
    /\ UNCHANGED <<reportStoreVars, articleStoreVars, genVars, futureVars, crawlVars, textVars, semaphoreVars, batchVars>>

\* chain.ainvoke raises: line 92 is not reached; tenacity waits and calls
\* again, or gives up.
InvokeRaise(c) ==
    /\ llmTask[c].phase = "invoking"
    /\ llmTask' = [llmTask EXCEPT ![c] =
           IF RetryStops(llmTask[c].attempt_number)
           THEN [@ EXCEPT !.phase = "failed"]
           ELSE [@ EXCEPT !.phase = "retry",
                          !.wakeAt = now + WaitExponential(llmTask[c].attempt_number)]]
    /\ UNCHANGED <<now, last_call_time, invocations>>
    /\ UNCHANGED <<reportStoreVars, articleStoreVars, genVars, futureVars, crawlVars, textVars, semaphoreVars, batchVars>>

\* A second passes.
Tick ==
    /\ now < MaxTime
    /\ now' = now + 1
    /\ UNCHANGED <<last_call_time, llmTask, invocations>>
    /\ UNCHANGED <<reportStoreVars, articleStoreVars, genVars, futureVars, crawlVars, textVars, semaphoreVars, batchVars>>

\* time.time() counts from the epoch: the first call of a process finds
\* elapsed_time far beyond the interval.
InitRate ==
    /\ EmptyReportStore
    /\ EmptyArticleStore
    /\ NoGeneration
    /\ now = API_CALL_INTERVAL_SECONDS
    /\ last_call_time = 0
    /\ llmTask = [c \in LLMTasks |-> IdleLLMTask]
    /\ invocations = {}
    /\ NoFutureRun
    /\ NoCrawl
    /\ NoDetailFetch
    /\ NoRecordAwaited
    /\ NoPostprocessCall

NextRate ==
    \/ \E c \in LLMTasks : CallLLM(c)
    \/ \E c \in LLMTasks : SleepReturn(c)
    \/ \E c \in LLMTasks : InvokeReturn(c)
    \/ \E c \in LLMTasks : InvokeRaise(c)
    \/ Tick

SpecRate == InitRate /\ [][NextRate]_vars

(***************************************************************************)
(* Claims on the report store (checked under SpecReportStore)              *)
(***************************************************************************)

\* C1 -- write-once caching.  A save_report_to_db call that starts when its
\* key (owner, kind, subject, year, month) already has a stored row writes
\* nothing, and, no earlier call on the key being still between its SELECT
\* and its INSERT, a load on the key returns after the call exactly the
\* contents it returned before it.
WriteOnceCaching ==
    (lastSaveReport.done /\ lastSaveReport.before # <<>>) =>
        /\ ~lastSaveReport.wrote
        /\ (~lastSaveReport.raced => lastSaveReport.after = lastSaveReport.before)

\* A second save with another content has returned and the load still yields
\* the first content alone.
WriteOnceCachingWitness ==
    /\ lastSaveReport.done
    /\ lastSaveReport.before = <<"c1">>
    /\ lastSaveReport.content = "c2"
    /\ lastSaveReport.report_type = "yearly"
    /\ ~lastSaveReport.raced
    /\ lastSaveReport.after = <<"c1">>

\* C2 -- at most one row of the report store per
\* (owner, report_kind, subject, year, month), in every reachable state,
\* interleaved saves included, for monthly keys and for keys without a month.
AtMostOneReportPerKey ==
    \A r1, r2 \in reports :
        (/\ r1.username = r2.username
         /\ r1.report_type = r2.report_type
         /\ r1.company = r2.company
         /\ r1.year = r2.year
         /\ r1.month = r2.month) => r1 = r2

\* C12 -- the report cache key includes the owner.  For every owner and
\* (kind, subject, year, month) for which the owner has no stored report, a
\* save_report_to_db call that runs alone stores the owner's content, and a
\* load of that owner on the key then returns exactly it, whatever other
\* owners hold.
OwnerInReportKey ==
    \A u \in Owners, t \in StoreKinds, q \in Companies, c \in StoreContents,
       y \in StoreYears, m \in StoreMonths \cup {MonthNull} :
        (/\ (t = "monthly") = (m # MonthNull)
         /\ LoadReports(reports, u, t, q, y, m) = <<>>)
        => LET saved == SaveReportResult(reports, nextReportId, u, t, q, c, y, m)
           IN ContentsOf(LoadReports(saved.rows, u, t, q, y, m)) = <<c>>

\* C15 -- a load with no month.  load_reports_from_db called with month None
\* returns, under any choice of the other filters, only rows whose month is
\* NULL.
MonthNoneLoadsMonthless ==
    \A u \in Owners \cup {NoText}, t \in StoreKinds \cup {NoText},
       q \in Companies \cup {NoText}, y \in StoreYears \cup {0} :
        LET loaded == LoadReports(reports, u, t, q, y, MonthNull)
        IN \A i \in 1..Len(loaded) : loaded[i].month = MonthNull

(***************************************************************************)
(* Claims on the article store (checked under SpecArticleStore)            *)
(***************************************************************************)

\* C10 -- idempotent ingestion.  No two stored rows share (owner, url); for
\* every article list A and owner O, save_articles_to_db(A, O) applied to the
\* table a first save_articles_to_db(A, O) leaves stores nothing more; and
\* when a call that stored rows was made again, the table is the one the
\* first call left.
IdempotentIngestion ==
    /\ \A r1, r2 \in articles :
           (r1.username = r2.username /\ r1.url = r2.url) => r1 = r2
    /\ \A b \in ArticleBatches, u \in Owners :
           LET once == SaveArticlesResult(articles, nextArticleId, b, u)
               twice == SaveArticlesResult(once.rows, once.nextId, b, u)
           IN twice = once
    /\ lastArticleSave.calls = 2 => articles = lastArticleSave.after

\* A two-record list stored two rows and was then saved again.
IdempotentIngestionWitness ==
    /\ lastArticleSave.calls = 2
    /\ lastArticleSave.inserted = 2
    /\ Len(lastArticleSave.batch) = 2
    /\ Cardinality(articles) = 2

\* A record save_articles_to_db does not skip for a missing field.
HasRequiredFields(a) ==
    a.url # NoText /\ a.title # NoText /\ a.content # NoText

\* C11 -- article save postcondition.  For every article list A and owner O,
\* the table save_articles_to_db(A, O) leaves holds exactly one row of O with
\* the url of each record of A that has title, url and full text, whatever
\* else A holds and whoever else has stored that url.
ArticleSavePostcondition ==
    \A b \in ArticleBatches, u \in Owners :
        LET after == SaveArticlesResult(articles, nextArticleId, b, u).rows
        IN \A i \in 1..Len(b) :
               HasRequiredFields(b[i]) =>
                   Cardinality({r \in after : r.username = u /\ r.url = b[i].url}) = 1

\* C14 -- reset scope.  reset_articles_db(O) removes the rows of O and no
\* other row; reset_articles_db() removes every row; after either, a save of
\* a complete record whose url no row holds stores it and a load returns it.
ResetScope ==
    \A u \in Owners \cup {NoText} :
        LET after == ResetArticlesResult(articles, u)
        IN /\ after \subseteq articles
           /\ u # NoText => \A r \in articles : (r \in after) = (r.username # u)
           /\ u = NoText => after = {}
           /\ \A v \in Owners, a \in ArticleInputs :
                  (HasRequiredFields(a) /\ \A r \in after : r.url # a.url)
                  => LET saved == SaveArticlesResult(after, nextArticleId, <<a>>, v)
                     IN \E r \in LoadArticles(saved.rows, v) :
                            r.url = a.url /\ r.title = a.title

\* A reset for alice has removed her rows and left bob's: an id is missing
\* from the table, which only a DELETE brings about.
ResetScopeWitness ==
    /\ articles # {}
    /\ \A r \in articles : r.username = "bob"
    /\ \E i \in 1..(nextArticleId - 1) : \A r \in articles : r.id # i
    /\ lastArticleSave = NoArticleSave

(***************************************************************************)
(* Claims on both stores (checked under SpecStores)                        *)
(***************************************************************************)

\* C13 -- partition isolation.  After any sequence of saves, a load of
\* articles for an owner, and a load of reports for an owner under any
\* choice of the other filters, returns only rows whose username column, the
\* owner the INSERT was made for, is that owner.
PartitionIsolation ==
    \A u \in Owners :
        /\ \A r \in LoadArticles(articles, u) : r.username = u
        /\ \A t \in StoreKinds \cup {NoText}, q \in Companies \cup {NoText},
              y \in StoreYears \cup {0}, m \in StoreMonths \cup {MonthNull} :
               LET loaded == LoadReports(reports, u, t, q, y, m)
               IN \A i \in 1..Len(loaded) : loaded[i].username = u

\* Both owners have stored articles and reports, and loads for bob return
\* rows.
PartitionIsolationWitness ==
    /\ \E r \in articles : r.username = "alice"
    /\ \E r \in reports : r.username = "alice"
    /\ LoadArticles(articles, "bob") # {}
    /\ LoadReports(reports, "bob", NoText, NoText, 0, MonthNull) # <<>>

(***************************************************************************)
(* Claims on the generation calls (checked under Spec)                     *)
(***************************************************************************)

\* A stored report of the running call's owner and subject for a unit.
StoredFor(T, kind, year, month) ==
    {r \in T : /\ r.username = runUser
                /\ r.report_type = kind
                /\ r.company = runQuery
                /\ r.year = year
                /\ r.month = month}

\* The yearly-issues call has ended by returning or raising.
YearlyIssuesEnded ==
    /\ pc = "done"
    /\ runKind = "yearly_issues"
    /\ result.status \in {"returned", "raised"}

\* C3: a yearly-issues call that follows, with unchanged stores, a
\* yearly-issues call of the same owner and subject in which every LLM call
\* succeeded issues no LLM call, writes nothing to the report store and
\* returns the text the first call returned.
RerunIsCached ==
    (/\ YearlyIssuesEnded
     /\ prevRun.done
     /\ prevRun.username = runUser
     /\ prevRun.query = runQuery
     /\ prevRun.allOk
     /\ prevRun.result.status = "returned"
     /\ startReports = prevRun.reportsAfter)
    => /\ llmCalls = {}
       /\ endReports = startReports
       /\ result = prevRun.result

\* C4: a yearly-issues call issues no LLM call for a monthly or yearly unit
\* whose report is stored for the call's owner and subject when it starts.
Resumability ==
    runKind = "yearly_issues" =>
        \A u \in llmCalls : StoredFor(startReports, u[1], u[2], u[3]) = {}

\* Witness: after a call that crashed, a call that found one of its units
\* stored and invoked the LLM for another ran to its end.
ResumabilityWitness ==
    /\ YearlyIssuesEnded
    /\ prevRun.done
    /\ prevRun.result.status = "crashed"
    /\ \E r \in startReports : r.username = runUser /\ r.report_type = "monthly"
    /\ \E i \in 1..Len(monthlyTasks) : monthlyTasks[i].kind = "cached"
    /\ llmCalls # {}
    /\ result.status = "returned"

\* C5: when the LLM call of one monthly unit failed on every attempt, the
\* call returns, and every other monthly unit whose LLM call succeeded has
\* its post-processed output stored for the call's owner.
PartialFailureIsolation ==
    (/\ YearlyIssuesEnded
     /\ \E i \in 1..Len(monthlyTasks) :
            monthlyTasks[i].kind = "llm" /\ monthlyTasks[i].content.failed)
    => /\ result.status = "returned"
       /\ \A j \in 1..Len(monthlyTasks) :
              (monthlyTasks[j].kind = "llm" /\ ~monthlyTasks[j].content.failed)
              => /\ monthlyTasks[j].content.post
                 /\ \E r \in StoredFor(reports, "monthly",
                                       monthlyTasks[j].uy, monthlyTasks[j].um) :
                        r.content = monthlyTasks[j].content

\* The report type a task's unit is stored under.
UnitKind(tasks) ==
    IF tasks = "monthly" THEN "monthly"
    ELSE IF runKind = "yearly_issues" THEN "yearly" ELSE runKind

\* The tasks that call the LLM, with the report type of their unit.
LLMUnits ==
    {[kind |-> "monthly", task |-> monthlyTasks[i]] :
         i \in {j \in 1..Len(monthlyTasks) : monthlyTasks[j].kind = "llm"}}
    \cup {[kind |-> UnitKind("yearly"), task |-> yearlyTasks[i]] :
              i \in 1..Len(yearlyTasks)}

\* C6: a unit invokes the LLM at most 10 times; a unit ends with the failure
\* message exactly when all 10 attempts raised; a unit whose attempt
\* succeeded makes no further attempt, and its post-processed output is the
\* report stored for the unit.
BoundedRetry ==
    \A u \in LLMUnits :
        /\ u.task.attempts <= STOP_AFTER_ATTEMPT
        /\ (u.task.state = "done" /\ u.task.content.failed)
               => u.task.attempts = STOP_AFTER_ATTEMPT
        /\ (u.task.state = "done" /\ ~u.task.content.failed)
               => /\ u.task.attempts = 0
                  /\ u.task.content.post
                  /\ \E r \in StoredFor(reports, u.kind, u.task.uy, u.task.um) :
                         r.content = u.task.content

\* C8: a yearly-issues call for an owner who has no stored article of the
\* requested subject (no article at all included) returns a placeholder
\* message, raises nothing, issues no LLM call and stores no report.
NoDataPlaceholder ==
    (/\ YearlyIssuesEnded
     /\ \A r \in LoadArticles(articles, runUser) : r.company # runQuery)
    => /\ result.status = "returned"
       /\ result.message # NoText
       /\ result.body = <<>>
       /\ llmCalls = {}
       /\ endReports = startReports

\* C9: a yearly-issues call for an owner who has stored articles, none of
\* them with a parseable publish date, returns a placeholder message and
\* raises nothing.
NoParseableDatePlaceholder ==
    (/\ YearlyIssuesEnded
     /\ LoadArticles(articles, runUser) # {}
     /\ DataFrame(LoadArticles(articles, runUser)) = {})
    => /\ result.status = "returned"
       /\ result.message # NoText

\* C16 -- keyword and trend stages without yearly reports.  A keyword or
\* trend call that starts when the owner has, for the subject, no yearly
\* report and no report of the stage's kind ends at once: it returns the
\* placeholder asking for the yearly reports, issues no LLM call and stores
\* nothing.
SummaryNeedsYearly ==
    (/\ runKind \in {"keyword", "trend"}
     /\ \A r \in startReports :
            (r.username = runUser /\ r.company = runQuery)
            => r.report_type \notin {"yearly", runKind})
    => /\ pc = "done"
       /\ result = Returned("generate the yearly reports first", <<>>)
       /\ llmCalls = {}
       /\ endReports = startReports
       /\ reports = startReports

\* A trend call found the owner's monthly reports, left by a yearly-issues
\* call that crashed, but no yearly report, and returned the placeholder.
SummaryNeedsYearlyWitness ==
    /\ pc = "done"
    /\ runKind = "trend"
    /\ \E r \in startReports : r.username = runUser /\ r.report_type = "monthly"
    /\ \A r \in startReports : r.report_type \notin {"yearly", "trend"}
    /\ result = Returned("generate the yearly reports first", <<>>)

(***************************************************************************)
(* Claims on the rate limiter (checked under SpecRate)                     *)
(***************************************************************************)

\* C7: the starts of any two LLM invocations made through
\* _call_llm_with_ainvoke are at least API_CALL_INTERVAL_SECONDS apart.
RateLimited ==
    \A a, b \in invocations :
        a # b => \/ a.at - b.at >= API_CALL_INTERVAL_SECONDS
                 \/ b.at - a.at >= API_CALL_INTERVAL_SECONDS

(***************************************************************************)
(* C17  A cache hit is terminal for the keyword, trend and future kinds:   *)
(* a call that starts with a stored report of its kind for its owner, its  *)
(* subject and the current year returns the content of that report, and    *)
(* it invokes no LLM chain, sends no web search, hands nothing to the      *)
(* vector store and leaves the report store as it found it.                *)
(***************************************************************************)
CacheHitIsTerminal ==
    LET cached == {r \in startReports :
                       /\ r.username = runUser
                       /\ r.report_type = runKind
                       /\ r.company = runQuery
                       /\ r.year = CurrentYear}
    IN (runKind \in {"keyword", "trend", "future"} /\ cached # {})
       => /\ pc = "done"
          /\ \E r \in cached : result = Returned(NoText, <<r.content>>)
          /\ llmCalls = {}
          /\ webSearches = 0
          /\ addedIds = <<>>
          /\ reports = startReports

(***************************************************************************)
(* C18  Detail-fetch failure policy: every completed detail fetch has      *)
(* produced one record for its URL, also when its request or its parse     *)
(* raised: no exception leaves get_article_details, the URL field is set,  *)
(* the fields that were not extracted hold the sentinel 'N/A', and a crawl *)
(* that found URLs returns one record per discovered URL.                  *)
(***************************************************************************)
DetailFetchFailurePolicy ==
    /\ crawlResult.status # "raised"
    /\ \A i \in 1..Len(crawlTasks) :
           crawlTasks[i].phase = "completed" =>
               LET page == crawlTasks[i].page
                   details == crawlTasks[i].details
               IN /\ ~crawlTasks[i].raised
                  /\ details.url = all_article_urls[i]
                  /\ (page.kind # "html" \/ page.title = "none") => details.title = NA
                  /\ (page.kind # "html" \/ ~page.date) => details.publish_date = NADate
                  /\ (page.kind # "html" \/ page.author = "none") => details.author = NA
                  /\ (page.kind # "html" \/ page.body = "none") => details.content = NA
    /\ (crawlPc = "done" /\ crawlUser # NoText) =>
           /\ crawlResult.status = "returned"
           /\ Len(crawlResult.body) = Len(all_article_urls)
           /\ \A u \in {all_article_urls[i] : i \in 1..Len(all_article_urls)} :
                  Cardinality({i \in 1..Len(crawlResult.body) :
                                   crawlResult.body[i].url = u})
                  = Cardinality({i \in 1..Len(all_article_urls) :
                                     all_article_urls[i] = u})

\* A crawl of two URLs has returned two records; the request of one URL
\* failed and the page of the other was parsed.
DetailFetchFailurePolicyWitness ==
    /\ crawlPc = "done"
    /\ Len(all_article_urls) = 2
    /\ crawlResult.status = "returned"
    /\ Len(crawlResult.body) = 2
    /\ \E i, j \in 1..2 :
           /\ crawlTasks[i].page.kind = "client_error"
           /\ crawlTasks[j].page.kind = "html"
           /\ crawlTasks[j].details.title = "t"
    /\ \E k \in 1..2 : crawlResult.body[k].title = NA /\ crawlResult.body[k].content = NA

(***************************************************************************)
(* C19  Vector-store deduplication: once a future call is past its upsert, *)
(* every chunk of its chunk list, whether the list holds it once or twice  *)
(* and whether an earlier call added it or not, has exactly one entry in   *)
(* the partition of the call's owner and subject (the upsert did not end   *)
(* the call with an error and left nothing out).                           *)
(***************************************************************************)
VectorStoreDeduplication ==
    (/\ runKind = "future"
     /\ unique_docs_splits # <<>>
     /\ pc \notin {"search", "upsert"})
    => \A i \in 1..Len(unique_docs_splits) :
           Cardinality({e \in vectorstore :
                            /\ e.id = DocId(unique_docs_splits[i])
                            /\ e.company_name = runQuery
                            /\ e.username = runUser}) = 1

(***************************************************************************)
(* C20  Empty retrieval.  A future call that found no stored report and    *)
(* whose retriever returned no document for its subject and owner has      *)
(* ended.  As claimed, it raised: it returned no result, invoked no LLM    *)
(* chain and wrote nothing to the report store.                            *)
(***************************************************************************)
EndedOnEmptyRetrieval ==
    /\ runKind = "future"
    /\ pc = "done"
    /\ "SERPER_API_KEY" \in environ
    /\ LoadReports(startReports, runUser, "future", runQuery, CurrentYear,
                   MonthNull) = <<>>
    /\ addedIds = <<>>
    /\ Retrieve(vectorstore, runQuery, runUser) = <<>>

EmptyRetrievalRaises ==
    EndedOnEmptyRetrieval
    => /\ result.status = "raised"
       /\ llmCalls = {}
       /\ reports = startReports

(***************************************************************************)
(* C20, amended: the ValueError of the empty retrieval is caught by the    *)
(* function's own "except Exception"; the call returns the failure message *)
(* that carries the error, having invoked no LLM chain and written nothing *)
(* to the report store.                                                    *)
(***************************************************************************)
EmptyRetrievalReturnsFailure ==
    EndedOnEmptyRetrieval
    => /\ result = FutureFailure("no documents retrieved")
       /\ llmCalls = {}
       /\ reports = startReports
       /\ endReports = startReports

\* A call that searched the web and got nothing, with an empty partition,
\* has returned the failure message.
EmptyRetrievalReturnsFailureWitness ==
    /\ EndedOnEmptyRetrieval
    /\ webSearches = SEARCH_QUERIES
    /\ unique_docs_splits = <<>>
    /\ retrieved_docs = <<>>
    /\ result.status = "returned"
    /\ result.body = <<FailureMessage("future", CurrentYear, MonthNull)>>

(***************************************************************************)
(* C21  Future stage opt-out: a call made with perform_serper_search=False *)
(* sends no Serper query and hands nothing to add_documents; the           *)
(* collection stays what it was when the call started, and every document  *)
(* its retriever returns was in the collection before the call.            *)
(***************************************************************************)
SearchOptOut ==
    (runKind = "future" /\ ~searchEnabled)
    => /\ webSearches = 0
       /\ addedIds = <<>>
       /\ unique_docs_splits = <<>>
       /\ vectorstore = startVectorstore
       /\ \A i \in 1..Len(retrieved_docs) : retrieved_docs[i] \in startVectorstore

\* A call without search has written its report from the chunks an earlier
\* call of the same owner had stored.
SearchOptOutWitness ==
    /\ runKind = "future"
    /\ ~searchEnabled
    /\ pc = "done"
    /\ retrieved_docs # <<>>
    /\ llmCalls # {}
    /\ result.status = "returned"
    /\ startVectorstore # {}
    /\ LoadReports(startReports, runUser, "future", runQuery, CurrentYear,
                   MonthNull) = <<>>


(***************************************************************************)
(* The progress callback of the report generation functions                *)
(***************************************************************************)
\* progress_callback=None, a callback the caller supplies, and the future
\* stage's _mock_progress_callback, which prints.
NoCallback == "None"
SuppliedCallback == "progress_callback"
MockProgressCallback == "_mock_progress_callback"

\* progress_callback(message, progress, status): calling None raises
\* TypeError; the supplied callback records the status and returns; the mock
\* prints and returns.
InvokeCallback(callback, log, status) ==
    IF callback = NoCallback THEN [raised |-> TRUE, log |-> log]
    ELSE IF callback = SuppliedCallback
    THEN [raised |-> FALSE, log |-> Append(log, status)]
    ELSE [raised |-> FALSE, log |-> log]

\* "if progress_callback: progress_callback(...)", the idiom of every site of
\* async_report_generator.py.
Notify(progress_callback, log, status) ==
    IF progress_callback # NoCallback
    THEN InvokeCallback(progress_callback, log, status)
    ELSE [raised |-> FALSE, log |-> log]

\* Mutant of EffectiveCallback: the future stage calls what it was given.
CallbackAsGiven(progress_callback) == progress_callback

\* "if progress_callback is None: progress_callback = _mock_progress_callback"
EffectiveCallback(progress_callback) ==
    IF progress_callback = NoCallback THEN MockProgressCallback
    ELSE progress_callback

\* What a generation call returns and leaves behind, and what the callback
\* was told.
CallOutcome(res, rows, nextId, store, log) ==
    [result |-> res, reports |-> rows, nextId |-> nextId,
     vectorstore |-> store, log |-> log]

\* generate_future_report as one call on the report table T and the vector
\* store V.  The first callback call is made before the try; the others are
\* made with the same callable.
FutureCall(T, id, V, query, username, perform_serper_search, docs, validates_ids, llm_ok, progress_callback) ==
    LET callback == EffectiveCallback(progress_callback)
        entry == InvokeCallback(callback, <<>>, "progress")
        told(statuses) == IF callback = SuppliedCallback
                          THEN entry.log \o statuses ELSE entry.log
        existing_report_content ==
            LoadReports(T, username, "future", query, CurrentYear, MonthNull)
        splits == IF StepAfterCacheMiss(perform_serper_search) = "search"
                  THEN SplitDocuments(SeenFiltered(docs, {}), query, username)
                  ELSE <<>>
        added == AddInBatches(V,
                     DocumentsToAdd(splits, CurrentDbIds(V, query, username)),
                     validates_ids)
        retrieved == Retrieve(added.store, query, username)
        roadmap_content ==
            PostProcessed(LLMOutput("future", CurrentYear, MonthNull,
                                    IdsOf(retrieved), <<>>))
        saved == SaveReportResult(T, id, username, "future", query,
                                  roadmap_content, CurrentYear, MonthNull)
    IN IF entry.raised
       THEN CallOutcome(Raised("TypeError"), T, id, V, <<>>)
       ELSE IF existing_report_content # <<>>
       THEN CallOutcome(Returned(NoText, existing_report_content), T, id, V,
                        told(<<"info">>))
       ELSE IF "SERPER_API_KEY" \notin environ
       THEN CallOutcome(FutureFailure("KeyError SERPER_API_KEY"), T, id, V,
                        told(<<"info", "error">>))
       ELSE IF ~added.ok
       THEN CallOutcome(FutureFailure("add_documents"), T, id, added.store,
                        told(<<"progress", "error">>))
       ELSE IF NoDocumentsRetrieved(retrieved)
       THEN CallOutcome(FutureFailure("no documents retrieved"), T, id,
                        added.store, told(<<"progress", "error">>))
       ELSE IF ~llm_ok
       THEN CallOutcome(FutureFailure("chain.invoke"), T, id, added.store,
                        told(<<"progress", "progress", "error">>))
       ELSE CallOutcome(Returned(NoText, <<roadmap_content>>), saved.rows,
                        saved.nextId, added.store,
                        told(<<"progress", "progress", "info">>))

\* _generate_page_2_keyword_summary and _generate_page_3_company_trend_analysis
\* as one call: llm_ok says whether an attempt of the LLM call succeeds before
\* the retries are exhausted.
SummaryCall(kind, T, id, query, username, llm_ok, progress_callback) ==
    LET existing_reports == LoadReports(T, username, kind, query, CurrentYear, 0)
        yearly_reports_content == LoadYearlyReportsContent(T, query, username)
        content == PostProcessed(LLMOutput(kind, CurrentYear, 0, <<>>,
                                           yearly_reports_content))
        saved == SaveReportResult(T, id, username, kind, query, content,
                                  CurrentYear, 0)
        working == Notify(progress_callback, <<>>, "progress")
    IN IF existing_reports # <<>>
       THEN LET n == Notify(progress_callback, <<>>, "info")
            IN IF n.raised THEN CallOutcome(Raised("TypeError"), T, id, {}, n.log)
               ELSE CallOutcome(Returned(NoText, <<existing_reports[1].content>>),
                                T, id, {}, n.log)
       ELSE IF yearly_reports_content = <<>>
       THEN LET n == Notify(progress_callback, <<>>, "warning")
            IN IF n.raised THEN CallOutcome(Raised("TypeError"), T, id, {}, n.log)
               ELSE CallOutcome(Returned("generate the yearly reports first", <<>>),
                                T, id, {}, n.log)
       ELSE IF working.raised
       THEN CallOutcome(Raised("TypeError"), T, id, {}, working.log)
       ELSE IF llm_ok
       THEN LET n == Notify(progress_callback, working.log, "info")
            IN \* the call is inside the try: an exception of it is caught
               \* and the failure message is returned, the report saved
               IF n.raised
               THEN CallOutcome(Returned(NoText,
                                    <<FailureMessage(kind, CurrentYear, 0)>>),
                                saved.rows, saved.nextId, {}, n.log)
               ELSE CallOutcome(Returned(NoText, <<content>>), saved.rows,
                                saved.nextId, {}, n.log)
       ELSE LET n == Notify(progress_callback, working.log, "error")
            IN IF n.raised THEN CallOutcome(Raised("TypeError"), T, id, {}, n.log)
               ELSE CallOutcome(Returned(NoText,
                                    <<FailureMessage(kind, CurrentYear, 0)>>),
                                T, id, {}, n.log)

\* What lines 143-212 of _generate_page_1_yearly_issues, which never refer to
\* the callback, come to for given stores, LLM responses and schedule:
\* whether monthly_tasks is empty, the yearly texts and the report table.
FanOut(no_tasks, texts, rows, nextId) ==
    [no_tasks |-> no_tasks, texts |-> texts, rows |-> rows, nextId |-> nextId]

\* _generate_page_1_yearly_issues as one call: its exits and callback sites
\* around the fan-out.
YearlyIssuesCall(A, T, id, username, fan_out, progress_callback) ==
    LET all_articles == LoadArticles(A, username)
        df == DataFrame(all_articles)
        range == Notify(progress_callback, <<>>, "info")
    IN IF all_articles = {}
       THEN LET n == Notify(progress_callback, <<>>, "warning")
            IN IF n.raised THEN CallOutcome(Raised("TypeError"), T, id, {}, n.log)
               ELSE CallOutcome(Returned("no crawled articles", <<>>),
                                T, id, {}, n.log)
       ELSE IF df = {}
       THEN CallOutcome(Raised("ValueError"), T, id, {}, <<>>)
       ELSE IF range.raised
       THEN CallOutcome(Raised("TypeError"), T, id, {}, range.log)
       ELSE IF fan_out.no_tasks
       THEN LET n == Notify(progress_callback, range.log, "warning")
            IN IF n.raised THEN CallOutcome(Raised("TypeError"), T, id, {}, n.log)
               ELSE CallOutcome(Returned("no monthly data to analyse", <<>>),
                                T, id, {}, n.log)
       ELSE IF fan_out.texts = {}
       THEN CallOutcome(Returned("no yearly data to analyse", <<>>),
                        fan_out.rows, fan_out.nextId, {}, range.log)
       ELSE LET n == Notify(progress_callback, range.log, "info")
            IN IF n.raised
               THEN CallOutcome(Raised("TypeError"), fan_out.rows,
                                fan_out.nextId, {}, n.log)
               ELSE CallOutcome(Returned(NoText, NewestYearFirst(fan_out.texts)),
                                fan_out.rows, fan_out.nextId, {}, n.log)

\* The inputs of a future-stage call besides the stores: the search switch,
\* the documents the search returns, whether the vector store validates ids
\* and whether the chain answers.
FutureInputs ==
    { [search |-> FALSE, docs |-> <<>>, validates_ids |-> v, llm_ok |-> ok] :
          v \in {TRUE}, ok \in BOOLEAN }
    \cup { [search |-> TRUE, docs |-> d, validates_ids |-> v, llm_ok |-> ok] :
               d \in SerperResults, v \in BOOLEAN, ok \in BOOLEAN }

\* Article tables and fan-out results of a yearly-issues call.
YearlyIssuesArticleTables ==
    { SaveArticlesResult({}, 1, b, "alice").rows : b \in GenBatches }

YearlyIssuesFanOuts(T, id) ==
    { FanOut(TRUE, {}, T, id),
      FanOut(FALSE, {}, T, id),
      FanOut(FALSE, {[year |-> 2022, content |-> FailureMessage("yearly", 2022, 0)]},
             T, id),
      FanOut(FALSE,
             {[year |-> 2022,
               content |-> PostProcessed(LLMOutput("yearly", 2022, 0, <<>>, <<>>))]},
             SaveReportResult(T, id, "alice", "yearly", "Acme",
                 PostProcessed(LLMOutput("yearly", 2022, 0, <<>>, <<>>)),
                 2022, 0).rows,
             SaveReportResult(T, id, "alice", "yearly", "Acme",
                 PostProcessed(LLMOutput("yearly", 2022, 0, <<>>, <<>>)),
                 2022, 0).nextId) }

SameTextAndStores(a, b) ==
    /\ a.result = b.result
    /\ a.reports = b.reports
    /\ a.nextId = b.nextId
    /\ a.vectorstore = b.vectorstore

\* C22: for the same store contents and the same LLM and search responses,
\* each report generation function returns the same text and leaves the same
\* store contents whether a progress_callback is supplied or omitted.
CallbackOnlyObserves ==
    /\ \A username \in Owners : \A in \in FutureInputs :
           SameTextAndStores(
               FutureCall(reports, nextReportId, vectorstore, "Acme", username,
                          in.search, in.docs, in.validates_ids, in.llm_ok,
                          NoCallback),
               FutureCall(reports, nextReportId, vectorstore, "Acme", username,
                          in.search, in.docs, in.validates_ids, in.llm_ok,
                          SuppliedCallback))
    /\ \A kind \in {"keyword", "trend"} : \A username \in Owners :
       \A llm_ok \in BOOLEAN :
           SameTextAndStores(
               SummaryCall(kind, reports, nextReportId, "Acme", username,
                           llm_ok, NoCallback),
               SummaryCall(kind, reports, nextReportId, "Acme", username,
                           llm_ok, SuppliedCallback))
    /\ \A A \in YearlyIssuesArticleTables :
       \A fan_out \in YearlyIssuesFanOuts(reports, nextReportId) :
           SameTextAndStores(
               YearlyIssuesCall(A, reports, nextReportId, "alice", fan_out,
                                NoCallback),
               YearlyIssuesCall(A, reports, nextReportId, "alice", fan_out,
                                SuppliedCallback))

\* A state from which the future stage, called with a callback, searches,
\* adds chunks, saves a report and tells the callback about it, and from
\* which the keyword summary and the yearly issues report to their callback
\* as well.
CallbackOnlyObservesWitness ==
    /\ vectorstore # {}
    /\ \E in \in FutureInputs :
           LET with == FutureCall(reports, nextReportId, vectorstore, "Acme",
                                  "alice", in.search, in.docs,
                                  in.validates_ids, in.llm_ok, SuppliedCallback)
               without == FutureCall(reports, nextReportId, vectorstore, "Acme",
                                     "alice", in.search, in.docs,
                                     in.validates_ids, in.llm_ok, NoCallback)
           IN /\ in.search
              /\ Len(with.log) = 4
              /\ without.log = <<>>
              /\ with.reports # reports
              /\ with.vectorstore # vectorstore
              /\ with.result.status = "returned"
    /\ LET with == SummaryCall("keyword", reports, nextReportId, "Acme",
                               "alice", TRUE, SuppliedCallback)
       IN with.log = <<"progress", "info">> /\ with.reports # reports
    /\ \E A \in YearlyIssuesArticleTables :
       \E fan_out \in YearlyIssuesFanOuts(reports, nextReportId) :
           YearlyIssuesCall(A, reports, nextReportId, "alice", fan_out,
                            SuppliedCallback).log = <<"info", "info">>


\* C23: a missing required credential (the LLM provider keys, the web-search
\* key) makes the load of the generator modules fail, so that a process
\* lacking one never gets as far as a generation call that ends on the
\* failure of reading it.
MissingCredentialFailsAtStartup ==
    ~(/\ runKind = "future"
      /\ pc = "done"
      /\ RequiredCredentials \ environ # {}
      /\ result = FutureFailure("KeyError SERPER_API_KEY"))


(***************************************************************************)
(* _postprocess_report_output                                              *)
(*                                                                         *)
(* A text is a sequence of characters: the four bullet markers, the space, *)
(* the newline, and "a" for any other character.                           *)
(***************************************************************************)
MaxTextLen == 4

Circle == "circle"          \* U+25CB, the marker of the second level
Dash == "-"
Dot == "dot"                \* U+2022
Square == "square"          \* U+25A1, the marker of the first level
Space == " "
Newline == "nl"
Markers == {Circle, Dash, Dot, Square}
Characters == Markers \cup {Space, Newline, "a"}

Spaces(n) == [i \in 1..n |-> Space]

RECURSIVE Replace(_, _, _)
\* str.replace(old, new): the occurrences of old, found from the left and
\* not overlapping, are replaced.
Replace(text, old, new) ==
    IF Len(text) < Len(old) THEN text
    ELSE IF SubSeq(text, 1, Len(old)) = old
    THEN new \o Replace(SubSeq(text, Len(old) + 1, Len(text)), old, new)
    ELSE <<Head(text)>> \o Replace(Tail(text), old, new)

\* The indentation the function writes before a marker.
Indentation(marker) ==
    CASE marker = Circle -> 2
      [] marker = Dash -> 4
      [] marker = Dot -> 6
      [] marker = Square -> 0

\* Mutant of PostprocessSteps: the four statements that insert, without the
\* four that take a doubled newline back.
PostprocessStepsWithoutCollapse ==
    << <<<<Circle, Space>>, <<Newline>> \o Spaces(2) \o <<Circle, Space>>>>,
       <<<<Dash, Space>>, <<Newline>> \o Spaces(4) \o <<Dash, Space>>>>,
       <<<<Dot, Space>>, <<Newline>> \o Spaces(6) \o <<Dot, Space>>>>,
       <<<<Square, Space>>, <<Newline, Square, Space>>>> >>

\* The arguments of the eight replace statements, in their order: a marker
\* and its space get a newline and the indentation before them, then a
\* doubled newline before an indented marker becomes one.
PostprocessSteps ==
    << <<<<Circle, Space>>, <<Newline>> \o Spaces(2) \o <<Circle, Space>>>>,
       <<<<Dash, Space>>, <<Newline>> \o Spaces(4) \o <<Dash, Space>>>>,
       <<<<Dot, Space>>, <<Newline>> \o Spaces(6) \o <<Dot, Space>>>>,
       <<<<Square, Space>>, <<Newline, Square, Space>>>>,
       <<<<Newline, Newline>> \o Spaces(2) \o <<Circle>>,
         <<Newline>> \o Spaces(2) \o <<Circle>>>>,
       <<<<Newline, Newline>> \o Spaces(4) \o <<Dash>>,
         <<Newline>> \o Spaces(4) \o <<Dash>>>>,
       <<<<Newline, Newline>> \o Spaces(6) \o <<Dot>>,
         <<Newline>> \o Spaces(6) \o <<Dot>>>>,
       <<<<Newline, Newline, Square, Space>>, <<Newline, Square, Space>>>> >>

RECURSIVE LStrip(_)
LStrip(text) ==
    IF text # <<>> /\ Head(text) \in {Space, Newline} THEN LStrip(Tail(text))
    ELSE text

RECURSIVE RStrip(_)
RStrip(text) ==
    IF text # <<>> /\ text[Len(text)] \in {Space, Newline}
    THEN RStrip(SubSeq(text, 1, Len(text) - 1))
    ELSE text

\* str.strip()
Strip(text) == RStrip(LStrip(text))

\* The texts the function is called with: nothing, a line, or a line and an
\* empty line, followed by up to MaxTextLen characters.
Openers == { <<>>, <<"a", Newline>>, <<"a", Newline, Newline>> }

TextsOfLength(n) == [1..n -> Characters]

PostprocessInputs ==
    { opener \o text : opener \in Openers,
                       text \in UNION { TextsOfLength(n) : n \in 0..MaxTextLen } }

\* One of the replace statements.
ReplaceStep ==
    /\ postprocessStep \in 1..Len(PostprocessSteps)
    /\ processed_text' = Replace(processed_text,
                                 PostprocessSteps[postprocessStep][1],
                                 PostprocessSteps[postprocessStep][2])
    /\ postprocessStep' = postprocessStep + 1
    /\ UNCHANGED postprocessContent
    /\ UNCHANGED <<reportStoreVars, articleStoreVars, genVars, rateVars,
                   futureVars, crawlVars, semaphoreVars, batchVars>>

\* return processed_text.strip()
StripStep ==
    /\ postprocessStep = Len(PostprocessSteps) + 1
    /\ processed_text' = Strip(processed_text)
    /\ postprocessStep' = postprocessStep + 1
    /\ UNCHANGED postprocessContent
    /\ UNCHANGED <<reportStoreVars, articleStoreVars, genVars, rateVars,
                   futureVars, crawlVars, semaphoreVars, batchVars>>

PostprocessReturned == postprocessStep = Len(PostprocessSteps) + 2

\* The function has been called with a text: processed_text = content.
InitPostprocess ==
    /\ EmptyReportStore
    /\ EmptyArticleStore
    /\ NoGeneration
    /\ NoLLMCall
    /\ NoFutureRun
    /\ NoCrawl
    /\ NoDetailFetch
    /\ NoRecordAwaited
    /\ postprocessContent \in PostprocessInputs
    /\ processed_text = postprocessContent
    /\ postprocessStep = 1

NextPostprocess ==
    \/ ReplaceStep
    \/ StripStep

SpecPostprocess == InitPostprocess /\ [][NextPostprocess]_vars

\* The lines of a text.
RECURSIVE Lines(_)
Lines(text) ==
    IF \A i \in 1..Len(text) : text[i] # Newline THEN <<text>>
    ELSE LET n == CHOOSE i \in 1..Len(text) :
                      /\ text[i] = Newline
                      /\ \A j \in 1..(i - 1) : text[j] # Newline
         IN <<SubSeq(text, 1, n - 1)>> \o Lines(SubSeq(text, n + 1, Len(text)))

\* A marker followed by a space stands at position i of the line.
MarkerAt(line, i) ==
    /\ i + 1 <= Len(line)
    /\ line[i] \in Markers
    /\ line[i + 1] = Space

\* The marker at position i of the line begins the line, after its fixed
\* indentation.
BeginsLine(line, i) == SubSeq(line, 1, i - 1) = Spaces(Indentation(line[i]))

\* The line is a marker line: its fixed indentation, the marker, a space.
MarkerLine(line) == \E i \in 1..Len(line) : MarkerAt(line, i) /\ BeginsLine(line, i)

EveryMarkerBeginsItsLine(text) ==
    \A k \in 1..Len(Lines(text)) : \A i \in 1..Len(Lines(text)[k]) :
        MarkerAt(Lines(text)[k], i) => BeginsLine(Lines(text)[k], i)

\* As EveryMarkerBeginsItsLine, but a marker may open the text: strip() has
\* removed what stood before it.
EveryMarkerBeginsItsLineOrTheText(text) ==
    \A k \in 1..Len(Lines(text)) : \A i \in 1..Len(Lines(text)[k]) :
        MarkerAt(Lines(text)[k], i)
        => \/ BeginsLine(Lines(text)[k], i)
           \/ k = 1 /\ i = 1

NoEmptyLineBeforeMarkerLine(text) ==
    \A k \in 2..Len(Lines(text)) :
        MarkerLine(Lines(text)[k]) => Lines(text)[k - 1] # <<>>

HasEmptyLine(text) ==
    \E i \in 1..(Len(text) - 1) : text[i] = Newline /\ text[i + 1] = Newline

UnitsOfYear(tasks, year) == SelectSeq(tasks, LAMBDA t : t.uy = year)

(***************************************************************************)
(* C25  Attribution of the monthly results.  Every resolved entry of       *)
(* monthly_tasks, cached or generated, carries the (year, month) of the    *)
(* unit it was created for; the input of the yearly call of a year is the  *)
(* outputs of exactly that year's units; and every year with a monthly     *)
(* unit has a yearly text or a yearly task once the results are grouped.   *)
(***************************************************************************)
MonthlyResultsAttributed ==
    runKind = "yearly_issues"
    => /\ \A i \in 1..Len(monthlyTasks) :
              monthlyTasks[i].state = "done"
              => /\ monthlyTasks[i].year = monthlyTasks[i].uy
                 /\ monthlyTasks[i].month = monthlyTasks[i].um
       /\ pc = "gatherYearly"
          => /\ \A i \in 1..Len(yearlyTasks) :
                    LET units == UnitsOfYear(monthlyTasks, yearlyTasks[i].uy)
                    IN yearlyTasks[i].parts =
                           [k \in 1..Len(units) |-> units[k].content]
             /\ \A i \in 1..Len(monthlyTasks) :
                    \/ \E t \in yearlyTexts : t.year = monthlyTasks[i].uy
                    \/ \E k \in 1..Len(yearlyTasks) :
                           yearlyTasks[k].uy = monthlyTasks[i].uy


\* A monthly unit of the year has completed: its entry resolved to a report,
\* not to the failure message.
HasCompletedMonthly(tasks, year) ==
    \E i \in 1..Len(tasks) :
        /\ tasks[i].uy = year
        /\ tasks[i].state = "done"
        /\ ~tasks[i].content.failed

(***************************************************************************)
(* C26  Yearly reports come from completed monthly results only: no input  *)
(* of a yearly LLM call holds the failure message of a monthly unit, and a *)
(* year none of whose monthly units completed has no yearly task and no    *)
(* yearly report written by the call.                                      *)
(***************************************************************************)
YearlyFromCompletedMonthlyOnly ==
    (runKind = "yearly_issues" /\ pc \in {"gatherYearly", "done"})
    => /\ \A i \in 1..Len(yearlyTasks) :
              /\ \A k \in 1..Len(yearlyTasks[i].parts) :
                     ~yearlyTasks[i].parts[k].failed
              /\ HasCompletedMonthly(monthlyTasks, yearlyTasks[i].uy)
       /\ \A r \in reports \ startReports :
              (r.report_type = "yearly" /\ monthlyTasks # <<>>)
              => HasCompletedMonthly(monthlyTasks, r.year)


(***************************************************************************)
(* Phase 2 of the fetcher by numbers: the semaphore and the tasks of any   *)
(* number of discovered URLs                                               *)
(***************************************************************************)
MaxFetchUrls == 102

\* Mutant of SemaphoreLocked: the semaphore lets every task in.
SemaphoreNeverLocked(value) == FALSE

\* asyncio.Semaphore.locked(): acquire() waits while the counter is 0.
SemaphoreLocked(value) == value = 0

\* "async with semaphore" is entered: acquire() takes a slot.
AcquireSemaphore ==
    /\ fetchWaiting > 0
    /\ ~SemaphoreLocked(semaphore_value)
    /\ semaphore_value' = semaphore_value - 1
    /\ fetchWaiting' = fetchWaiting - 1
    /\ fetchHolding' = fetchHolding + 1
    /\ UNCHANGED fetchReleased
    /\ UNCHANGED <<reportStoreVars, articleStoreVars, genVars, rateVars,
                   futureVars, crawlVars, textVars, batchVars>>

\* Mutant of SemaphoreAfterExit: the block is left without release().
SemaphoreAfterLeakingExit(value) == value

\* The counter after "async with semaphore" is left, by the return or by an
\* exception on its way to the handlers below it: release().
SemaphoreAfterExit(value) == value + 1

\* The request and the parse are over, with details or with an exception
\* caught inside: "async with" is left and release() gives the slot back.
ReleaseSemaphore ==
    /\ fetchHolding > 0
    /\ semaphore_value' = SemaphoreAfterExit(semaphore_value)
    /\ fetchHolding' = fetchHolding - 1
    /\ fetchReleased' = fetchReleased + 1
    /\ UNCHANGED fetchWaiting
    /\ UNCHANGED <<reportStoreVars, articleStoreVars, genVars, rateVars,
                   futureVars, crawlVars, textVars, batchVars>>

\* Phase 2 has created the semaphore and one task for each of the
\* total_urls_to_crawl > 0 discovered URLs.
InitSemaphore ==
    /\ EmptyReportStore
    /\ EmptyArticleStore
    /\ NoGeneration
    /\ NoLLMCall
    /\ NoFutureRun
    /\ NoCrawl
    /\ NoPostprocessCall
    /\ NoRecordAwaited
    /\ semaphore_value = SEMAPHORE_LIMIT
    /\ fetchWaiting \in 1..MaxFetchUrls
    /\ fetchHolding = 0
    /\ fetchReleased = 0

NextSemaphore ==
    \/ AcquireSemaphore
    \/ ReleaseSemaphore

SpecSemaphore == InitSemaphore /\ [][NextSemaphore]_vars

YearlyCallsAfterMonthlyJoin ==
    (/\ runKind = "yearly_issues"
     /\ \/ yearlyTasks # <<>>
        \/ \E c \in llmCalls : c[1] = "yearly")
    => \A i \in 1..Len(monthlyTasks) : monthlyTasks[i].state = "done"

\* A yearly LLM call has been made after two monthly units were generated,
\* and the report of the later unit was stored before that of the earlier
\* one: the monthly units resolved against the order of the loops.
YearlyCallsAfterMonthlyJoinWitness ==
    /\ runKind = "yearly_issues"
    /\ \E c \in llmCalls : c[1] = "yearly"
    /\ Len(monthlyTasks) >= 2
    /\ \A i \in 1..Len(monthlyTasks) : monthlyTasks[i].state = "done"
    /\ \E r1, r2 \in reports \ startReports :
           /\ r1.report_type = "monthly"
           /\ r2.report_type = "monthly"
           /\ \/ r1.year < r2.year
              \/ r1.year = r2.year /\ r1.month < r2.month
           /\ r2.id < r1.id


(***************************************************************************)
(* C29  Write isolation of the vector-store partitions: whatever a future  *)
(* call of one owner adds, every chunk the collection held for another     *)
(* owner when the call started is still there, with its text and its       *)
(* labels, also when both owners got a chunk of the same source and text.  *)
(***************************************************************************)
PartitionsIsolatedOnWrite ==
    runKind = "future"
    => \A e \in startVectorstore :
           e.username # runUser
           => /\ e \in vectorstore
              /\ e \in {Retrieve(vectorstore, e.company_name, e.username)[i] :
                            i \in 1..Len(Retrieve(vectorstore, e.company_name,
                                                  e.username))}


(***************************************************************************)
(* C30  Future kind, cache hit after generation: when a call of            *)
(* _generate_page_4_future_report has generated and stored the report, the *)
(* call that follows it for the same owner and subject in the same year    *)
(* returns the value the generating call returned.                         *)
(***************************************************************************)
FutureCacheHitReturnsGenerated ==
    \A username \in Owners : \A in \in FutureInputs :
        LET generating ==
                FutureCall(reports, nextReportId, vectorstore, "Acme", username,
                           in.search, in.docs, in.validates_ids, in.llm_ok,
                           NoCallback)
            following ==
                FutureCall(generating.reports, generating.nextId,
                           generating.vectorstore, "Acme", username,
                           in.search, in.docs, in.validates_ids, in.llm_ok,
                           NoCallback)
        IN generating.reports # reports
           => following.result = generating.result


\* What each report path calls to invoke its LLM chain: the monthly, yearly,
\* keyword and trend paths await _call_llm_with_ainvoke(chain, inputs), the
\* wrapper with the spacing and tenacity's retry; the future path calls
\* future_roadmap_chain.invoke(...) itself, once and synchronously.
LLMCallSite(kind) ==
    IF kind = "future" THEN "chain.invoke" ELSE "_call_llm_with_ainvoke"

(***************************************************************************)
(* C31  Every LLM invocation of every report path (monthly, yearly,        *)
(* keyword, trend, future) is made through the rate-limited, retrying      *)
(* wrapper: no call of a run was made on the chain directly.               *)
(***************************************************************************)
EveryLLMCallThroughWrapper ==
    \A c \in llmCalls : LLMCallSite(c[1]) = "_call_llm_with_ainvoke"


(***************************************************************************)
(* C32  URL discovery.  Every turn of the discovery loop requests one      *)
(* page, and discovery ends with that page exactly when its request        *)
(* failed, it lists no result, the page number has reached the caller's    *)
(* page cap, or the links collected so far have reached the total count    *)
(* parsed from the search pages (without a parsed total the other          *)
(* conditions decide).  With a cap N no page beyond N is requested.  The   *)
(* links collected up to the stop are kept, and each is handed to phase 2  *)
(* as one detail-fetch task; with no link the call returns the empty list. *)
(***************************************************************************)
DiscoveryEndsAsSpecified ==
    [][crawlPc = "discover"
       => \E html \in SearchPages :
              LET failed == html.kind = "none"
                  zero == ~failed /\ html.links = <<>>
                  withUrl == SelectSeq(html.links, LAMBDA u : u # NoUrl)
                  collected == all_article_urls \o withUrl
                  total == IF failed THEN total_articles_count
                           ELSE IF total_articles_count = NoTotal
                           THEN html.total ELSE total_articles_count
                  capHit == max_pages >= 1 /\ current_page >= max_pages
                  totalHit == total # NoTotal /\ Len(collected) >= total
                  ends == crawlPc' # "discover"
              IN /\ total_articles_count' = total
                 /\ ends <=> (failed \/ zero \/ capHit \/ totalHit)
                 /\ max_pages >= 1 => current_page' <= max_pages
                 /\ all_article_urls' = IF failed \/ zero THEN all_article_urls
                                        ELSE collected
                 /\ ~ends => current_page' = current_page + 1
                 /\ ends =>
                        IF all_article_urls' = <<>>
                        THEN /\ crawlPc' = "done"
                             /\ crawlResult' = Returned(NoText, <<>>)
                        ELSE /\ crawlPc' = "fetch"
                             /\ Len(crawlTasks') = Len(all_article_urls')
                             /\ \A i \in 1..Len(crawlTasks') :
                                    crawlTasks'[i].details.url = all_article_urls'[i]
      ]_vars

\* Discovery went on past a first page without a total and ended on the
\* second page, whose total the two collected links reach; both links are
\* with phase 2.
DiscoveryEndsAsSpecifiedWitness ==
    /\ crawlPc = "fetch"
    /\ max_pages = NoMaxPages
    /\ current_page = 2
    /\ total_articles_count = 2
    /\ all_article_urls = <<"u1", "u2">>
    /\ Len(crawlTasks) = 2


(***************************************************************************)
(* Phase 2 of fetch_all_hankyung_articles for many URLs: the tasks at the  *)
(* semaphore and the loop that awaits them in completion order and saves   *)
(* their records in batches.  A record is named by its rank of completion  *)
(* (the i + 1 of the loop).                                                *)
(***************************************************************************)
\* total_urls_to_crawl: one task per discovered URL.
TotalUrlsToCrawl == fetchWaiting + fetchHolding + fetchReleased

\* One turn of "for i, task in enumerate(asyncio.as_completed(tasks))": the
\* next completed task is awaited, its record goes to the batch, and a full
\* batch is handed to save_articles_to_db and emptied.
AwaitNextCompleted ==
    LET batch == Append(pendingBatch, recordsAwaited + 1)
    IN /\ phase2Pc = "loop"
       /\ recordsAwaited < fetchReleased
       /\ recordsAwaited' = recordsAwaited + 1
       /\ IF BatchFull(batch)
          THEN /\ savedBatches' = Append(savedBatches, batch)
               /\ pendingBatch' = <<>>
          ELSE /\ pendingBatch' = batch
               /\ UNCHANGED savedBatches
       /\ UNCHANGED phase2Pc
       /\ UNCHANGED <<reportStoreVars, articleStoreVars, genVars, rateVars,
                      futureVars, crawlVars, textVars, semaphoreVars>>

\* After the loop: "if batch: await save_articles_to_db(batch, username)"
\* and the return.
FlushAndReturn ==
    /\ phase2Pc = "loop"
    /\ recordsAwaited = TotalUrlsToCrawl
    /\ savedBatches' = IF pendingBatch # <<>> THEN Append(savedBatches, pendingBatch)
                       ELSE savedBatches
    /\ pendingBatch' = <<>>
    /\ phase2Pc' = "returned"
    /\ UNCHANGED recordsAwaited
    /\ UNCHANGED <<reportStoreVars, articleStoreVars, genVars, rateVars,
                   futureVars, crawlVars, textVars, semaphoreVars>>

\* The numbers of discovered URLs tried: one, a full batch, two batches and
\* a rest, and more than the semaphore has slots.
Phase2UrlCounts ==
    {1, SAVE_BATCH_SIZE, 2 * SAVE_BATCH_SIZE + 1, MaxFetchUrls}

InitPhase2 ==
    /\ EmptyReportStore
    /\ EmptyArticleStore
    /\ NoGeneration
    /\ NoLLMCall
    /\ NoFutureRun
    /\ NoCrawl
    /\ NoPostprocessCall
    /\ semaphore_value = SEMAPHORE_LIMIT
    /\ fetchWaiting \in Phase2UrlCounts
    /\ fetchHolding = 0
    /\ fetchReleased = 0
    /\ phase2Pc = "loop"
    /\ recordsAwaited = 0
    /\ pendingBatch = <<>>
    /\ savedBatches = <<>>

NextPhase2 ==
    \/ AcquireSemaphore
    \/ ReleaseSemaphore
    \/ AwaitNextCompleted
    \/ FlushAndReturn

SpecPhase2 == InitPhase2 /\ [][NextPhase2]_vars

RECURSIVE Flatten(_)
Flatten(lists) ==
    IF lists = <<>> THEN <<>> ELSE Head(lists) \o Flatten(Tail(lists))

(***************************************************************************)
(* C33  Batch persistence in phase 2: the records handed to                *)
(* save_articles_to_db, followed by those still in the batch, are the      *)
(* awaited records, each once; fewer than 10 records are in the batch      *)
(* between two steps; no empty list is handed over and every list but the  *)
(* last has exactly 10 records; when the function has returned, the batch  *)
(* is empty and every discovered URL's record has been handed over.        *)
(***************************************************************************)
BatchPersistence ==
    LET handed == Flatten(savedBatches)
        kept == handed \o pendingBatch
    IN /\ Len(kept) = recordsAwaited
       /\ \A j \in 1..Len(kept) : kept[j] = j
       /\ Len(pendingBatch) < SAVE_BATCH_SIZE
       /\ \A k \in 1..Len(savedBatches) :
              /\ savedBatches[k] # <<>>
              /\ Len(savedBatches[k]) <= SAVE_BATCH_SIZE
              /\ (k < Len(savedBatches) \/ phase2Pc = "loop")
                     => Len(savedBatches[k]) = SAVE_BATCH_SIZE
       /\ phase2Pc = "returned"
              => /\ pendingBatch = <<>>
                 /\ Len(handed) = TotalUrlsToCrawl

\* 21 URLs: two batches of 10 were saved in the loop and the last record
\* after it.
BatchPersistenceWitness ==
    /\ phase2Pc = "returned"
    /\ Len(savedBatches) = 3
    /\ Len(savedBatches[2]) = SAVE_BATCH_SIZE
    /\ Len(savedBatches[3]) = 1


\* Phase 2 under the scheduling of the event loop: a task that can enter the
\* semaphore does, a request that holds a slot ends (it returns, fails or
\* hits its 10-second timeout), and the loop of fetch_all_hankyung_articles
\* goes on when a completed task is there to be awaited.
FairSpecPhase2 ==
    /\ SpecPhase2
    /\ WF_vars(AcquireSemaphore)
    /\ WF_vars(ReleaseSemaphore)
    /\ WF_vars(AwaitNextCompleted)
    /\ WF_vars(FlushAndReturn)

(***************************************************************************)
(* C34  Phase 2 terminates: with every request ending, every detail-fetch  *)
(* task gets its semaphore slot and gives it back, and                     *)
(* fetch_all_hankyung_articles returns; it returns only after every        *)
(* discovered URL has produced a record that the loop has awaited, and no  *)
(* slot is leaked: the free slots and the slots held always add up to the  *)
(* semaphore's 100, and all 100 are free at the return.                    *)
(***************************************************************************)
Phase2Terminates ==
    /\ [](semaphore_value + fetchHolding = SEMAPHORE_LIMIT)
    /\ [](phase2Pc = "returned"
             => /\ fetchWaiting = 0
                /\ fetchHolding = 0
                /\ recordsAwaited = fetchReleased
                /\ semaphore_value = SEMAPHORE_LIMIT)
    /\ <>(phase2Pc = "returned")

\* More URLs than slots: tasks had to wait for a slot, and the call has
\* returned with every slot free.
Phase2TerminatesWitness ==
    /\ phase2Pc = "returned"
    /\ fetchReleased = MaxFetchUrls
    /\ fetchReleased > SEMAPHORE_LIMIT
    /\ semaphore_value = SEMAPHORE_LIMIT


\* The entries of tasks whose LLM call gave up: they resolved to the failure
\* message.
FailedUnits(tasks) ==
    {i \in 1..Len(tasks) : tasks[i].state = "done" /\ tasks[i].content.failed}

\* The report type of the entries of yearlyTasks: the keyword and trend
\* functions keep their one unit there.
YearlyTasksKind == IF runKind \in {"keyword", "trend"} THEN runKind ELSE "yearly"

(***************************************************************************)
(* C35  A failure message is never persisted as a unit's own content: no   *)
(* row of the report store holds a failure message, and for a monthly,     *)
(* yearly, keyword or trend unit whose LLM call has failed the lookup by   *)
(* the unit's key, which is the cache check of a later run, finds no row;  *)
(* a future call, made when no other call runs, whose search returns a     *)
(* document and whose LLM invocation fails leaves the report store as it   *)
(* was, with no future report under its key.                               *)
(***************************************************************************)
FailureNeverPersisted ==
    /\ \A r \in reports : ~r.content.failed
    /\ \A i \in FailedUnits(monthlyTasks) :
           LoadReports(reports, runUser, "monthly", runQuery,
                       monthlyTasks[i].uy, monthlyTasks[i].um) = <<>>
    /\ \A i \in FailedUnits(yearlyTasks) :
           LoadReports(reports, runUser, YearlyTasksKind, runQuery,
                       yearlyTasks[i].uy, yearlyTasks[i].um) = <<>>
    /\ pc \in {"idle", "done"} =>
           \A username \in Owners :
           \A docs \in {d \in SerperResults : Len(d) = 1} :
               LET call == FutureCall(reports, nextReportId, vectorstore, "Acme",
                                      username, TRUE, docs, TRUE, FALSE,
                                      NoCallback)
               IN call.result = FutureFailure("chain.invoke")
                      => /\ call.reports = reports
                         /\ LoadReports(call.reports, username, "future",
                                        "Acme", CurrentYear, MonthNull) = <<>>

\* A yearly-issues call has ended in which one monthly unit failed while
\* the call stored other reports, and a future call made now would reach
\* its LLM invocation.
FailureNeverPersistedWitness ==
    /\ pc = "done"
    /\ runKind = "yearly_issues"
    /\ FailedUnits(monthlyTasks) # {}
    /\ reports # startReports
    /\ \E docs \in {d \in SerperResults : Len(d) = 1} :
           FutureCall(reports, nextReportId, vectorstore, "Acme", "alice",
                      TRUE, docs, TRUE, FALSE,
                      NoCallback).result = FutureFailure("chain.invoke")


(***************************************************************************)
(* C36  Field extraction is independent per field: for a detail page that  *)
(* was received, each of title, date, author and body is at the sentinel   *)
(* exactly when the page has no usable source for that field, whatever the *)
(* sources of the other three fields are.                                  *)
(***************************************************************************)
FieldsExtractedIndependently ==
    \A i \in 1..Len(crawlTasks) :
        LET page == crawlTasks[i].page
            details == crawlTasks[i].details
        IN (crawlTasks[i].phase = "completed" /\ page.kind = "html")
               => /\ details.title = NA <=> page.title \notin {"og:title", "title"}
                  /\ details.publish_date = NADate <=> ~page.date
                  /\ details.author = NA <=> page.author = "none"
                  /\ details.content = NA <=> page.body = "none"


MaxStoredChunks == 22    \* entries of one partition in a large collection

\* A collection entry of the partition (company_name, username).
StoredChunk(n, company_name, username) ==
    [id |-> <<"stored", n>>, source |-> "stored", page_content |-> n,
     company_name |-> company_name, username |-> username]

\* n entries of the partition.
StoredChunks(n, company_name, username) ==
    {StoredChunk(i, company_name, username) : i \in 1..n}

\* What the retriever is asked about docs: at most k of them, all of the
\* partition (company_name, username).
ConfinedTo(docs, company_name, username) ==
    /\ Len(docs) <= RETRIEVER_K
    /\ \A j \in 1..Len(docs) :
           /\ docs[j].company_name = company_name
           /\ docs[j].username = username

(***************************************************************************)
(* C37  Retrieval for the future report is confined to the caller's        *)
(* partition: the chunks the LLM context of a future report for (subject,  *)
(* owner) is joined from all carry company_name = subject and username =   *)
(* owner, and they are at most 20, also when the collection holds more     *)
(* than 20 chunks of the partition next to those of other partitions.      *)
(***************************************************************************)
RetrievalConfined ==
    /\ pc = "llm" => ConfinedTo(retrieved_docs, runQuery, runUser)
    /\ pc = "retrieve" =>
           \A n \in {RETRIEVER_K - 1, RETRIEVER_K, MaxStoredChunks} :
               ConfinedTo(
                   Retrieve(vectorstore
                                \cup StoredChunks(n, runQuery, runUser)
                                \cup StoredChunks(n, "Other", runUser)
                                \cup {StoredChunk(0, runQuery, OtherOwner)},
                            runQuery, runUser),
                   runQuery, runUser)

\* The LLM is about to be called with the owner's chunks while the collection
\* holds a chunk of another owner for the same subject; with 22 more chunks
\* of the partition the retriever would have returned 20.
RetrievalConfinedWitness ==
    /\ pc = "llm"
    /\ retrieved_docs # <<>>
    /\ \E e \in vectorstore : e.company_name = runQuery /\ e.username # runUser
    /\ Len(Retrieve(vectorstore \cup StoredChunks(MaxStoredChunks, runQuery, runUser),
                    runQuery, runUser)) = RETRIEVER_K


(***************************************************************************)
(* C38  Fetcher phase ordering: while URL discovery runs no detail-fetch   *)
(* task exists, so no detail page is fetched before discovery has ended;   *)
(* a call without an owner, and a discovery that ends with no link, end    *)
(* the call at once: no detail-fetch task is created, the article store is *)
(* left as it is, and the empty list is returned.                          *)
(***************************************************************************)
FetcherPhaseOrdering ==
    /\ [](crawlPc \in {"idle", "discover"}
              => /\ crawlTasks = <<>>
                 /\ completion = <<>>
                 /\ fetched_articles_details = <<>>)
    /\ []((crawlPc = "done" /\ (crawlUser = NoText \/ all_article_urls = <<>>))
              => /\ crawlTasks = <<>>
                 /\ fetched_articles_details = <<>>
                 /\ crawlResult = Returned(NoText, <<>>))
    /\ []((crawlUser = NoText \/ all_article_urls = <<>>) => crawlPc # "fetch")
    /\ [][(crawlPc' \in {"discover", "done"} /\ crawlTasks' = <<>>)
              => /\ articles' = articles
                 /\ nextArticleId' = nextArticleId]_vars

\* An owner's crawl went through two search pages, found no link and has
\* returned the empty list without a detail fetch.
FetcherPhaseOrderingWitness ==
    /\ crawlPc = "done"
    /\ crawlUser # NoText
    /\ current_page = 2
    /\ all_article_urls = <<>>
    /\ crawlTasks = <<>>
    /\ crawlResult = Returned(NoText, <<>>)

====
